---- MODULE Spec2Model ----
(***************************************************************************)
(* A model of cc-policy: the rule-merge engine (src/src/cri.rs), the       *)
(* manifest accessors (src/src/pod_yaml.rs), the fixed rule fragments      *)
(* (src/src/cri.rs, src/src/kubernetes.rs) and the container policy        *)
(* builder (src/src/policy.rs).                                            *)
(*                                                                         *)
(* Representation.                                                         *)
(*  - A Rust String that the code searches for '=' (an environment rule)   *)
(*    is a sequence of tokens.  The characters '=', '^' and '$' are always *)
(*    tokens of their own; a maximal run of other characters is one token. *)
(*    Every concatenation the code performs keeps this form, so two model  *)
(*    strings are equal exactly when the Rust strings are.                 *)
(*  - Option<T>: None is <<>>, Some(x) is <<x>>.                           *)
(*  - Vec indices are 1-based here (0-based in Rust).                      *)
(***************************************************************************)
EXTENDS Integers, Sequences, FiniteSets, TLC

VARIABLES
    call,          \* the entry point being run and its arguments
    ret,           \* <<>> while it runs, <<result>> once it has returned
    defaults,      \* merge_process_env: the &mut Vec<String> being rewritten
    cache,         \* merge_process_env: name -> index snapshot of defaults
    removes,       \* merge_process_env: the removal requests still to apply
    i,             \* merge_process_env: position of the next override
    epc,           \* merge_process_env: "idle" | "index" | "overrides" | "removes" | "done" | "panic"
    skopeo,        \* collaborator: image reference -> configuration `skopeo inspect` returns
    kubectl,       \* collaborator: config map name -> its data (`kubectl get configmap`)
    pod,           \* Option<PodYaml>, the normalized manifest
    cc_policy,     \* the CcPolicy under construction
    stage,         \* "idle" | "from" | "containers" | "init_containers" | "return" | "done" | "error" | "panic"
    idx,           \* get_container_policy: position in the list being iterated
    pc,            \* builder: "idle" | "get_process" | "get_mounts" | "insert"
    cur,           \* builder: the container being built (Null for the sandbox)
    oci_spec,      \* builder: the Spec being filled in
    kube,          \* builder: the orchestrator fragment
    image          \* builder: the image configuration

hvars == <<call, ret>>
evars == <<defaults, cache, removes, i, epc>>
cvars == <<skopeo, kubectl>>
bvars == <<pod, cc_policy, stage, idx, pc, cur, oci_spec, kube, image>>
vars == <<call, ret, defaults, cache, removes, i, epc, skopeo, kubectl,
          pod, cc_policy, stage, idx, pc, cur, oci_spec, kube, image>>

None == <<>>
Some(x) == <<x>>

Range(s) == {s[k] : k \in DOMAIN s}

\* All sequences over S of length at most n.
SeqUpTo(S, n) == UNION {[1..m -> S] : m \in 0..n}

(***************************************************************************)
(* Strings                                                                 *)
(***************************************************************************)

\* str::find('='): the position of the first '=', 0 for None.
find_eq(env) ==
    IF \E k \in DOMAIN env : env[k] = "="
    THEN CHOOSE k \in DOMAIN env : env[k] = "=" /\ \A j \in 1..(k - 1) : env[j] # "="
    ELSE 0

\* env.split_at(eqpos).0: the text before the first '='.
env_name(env) == SubSeq(env, 1, find_eq(env) - 1)

\* NAME=VALUE as written in the sources.
Rule(name, value) == name \o <<"=">> \o value

(***************************************************************************)
(* cri.rs: merge_process_env                                               *)
(***************************************************************************)

\* A plausible slip: the first entry of a name is indexed, not the last.
build_cache_first(ds) ==
    [n \in {env_name(ds[k]) : k \in DOMAIN ds} |->
        CHOOSE k \in DOMAIN ds :
            /\ env_name(ds[k]) = n
            /\ \A j \in DOMAIN ds : env_name(ds[j]) = n => k <= j]

\* Lines 412-417: the index over defaults; a later entry overwrites an earlier
\* one of the same name.  Only evaluated when every entry holds '='.
build_cache(ds) ==
    [n \in {env_name(ds[k]) : k \in DOMAIN ds} |->
        CHOOSE k \in DOMAIN ds :
            /\ env_name(ds[k]) = n
            /\ \A j \in DOMAIN ds : env_name(ds[j]) = n => j <= k]

\* Line 413: find('=').unwrap() aborts on an entry without '='.
index_panics(ds) == \E k \in DOMAIN ds : find_eq(ds[k]) = 0

\* A plausible slip: a replaced entry is moved to the end instead of being
\* rewritten in place.
override_step_moves(ds, c, rs, env) ==
    IF find_eq(env) # 0
    THEN IF env_name(env) \in DOMAIN c
         THEN [defaults |->
                  Append(SubSeq(ds, 1, c[env_name(env)] - 1)
                            \o SubSeq(ds, c[env_name(env)] + 1, Len(ds)), env),
               removes |-> rs]
         ELSE [defaults |-> Append(ds, env), removes |-> rs]
    ELSE [defaults |-> ds, removes |-> Append(rs, env)]

\* A plausible slip: a name appended earlier in the call counts as indexed,
\* so a second override of it replaces the appended entry.
override_step_sees_appended(ds, c, rs, env) ==
    LET held == {k \in DOMAIN ds : find_eq(ds[k]) # 0 /\ env_name(ds[k]) = env_name(env)}
    IN  IF find_eq(env) # 0
        THEN IF env_name(env) \in DOMAIN c
             THEN [defaults |-> [ds EXCEPT ![c[env_name(env)]] = env], removes |-> rs]
             ELSE IF held # {}
             THEN [defaults |-> [ds EXCEPT ![CHOOSE k \in held : \A j \in held : j <= k] = env],
                   removes |-> rs]
             ELSE [defaults |-> Append(ds, env), removes |-> rs]
        ELSE [defaults |-> ds, removes |-> Append(rs, env)]

\* Lines 421-435: one iteration of the loop over overrides.
override_step(ds, c, rs, env) ==
    IF find_eq(env) # 0
    THEN IF env_name(env) \in DOMAIN c
         THEN [defaults |-> [ds EXCEPT ![c[env_name(env)]] = env], removes |-> rs]
         ELSE [defaults |-> Append(ds, env), removes |-> rs]
    ELSE [defaults |-> ds, removes |-> Append(rs, env)]

\* Vec::remove(index): the list without position k.
vec_remove(ds, k) == SubSeq(ds, 1, k - 1) \o SubSeq(ds, k + 1, Len(ds))

\* Lines 438-443: one iteration of the loop over removes.  Vec::remove aborts
\* when the snapshot index is past the end of the (already shortened) list.
remove_step(ds, c, remove) ==
    IF remove \in DOMAIN c
    THEN IF c[remove] > Len(ds)
         THEN [panic |-> TRUE, defaults |-> ds]
         ELSE [panic |-> FALSE, defaults |-> vec_remove(ds, c[remove])]
    ELSE [panic |-> FALSE, defaults |-> ds]

RECURSIVE apply_overrides(_, _, _, _)
apply_overrides(ds, c, rs, ovs) ==
    IF ovs = <<>>
    THEN [defaults |-> ds, removes |-> rs]
    ELSE LET s == override_step(ds, c, rs, Head(ovs))
         IN  apply_overrides(s.defaults, c, s.removes, Tail(ovs))

RECURSIVE apply_removes(_, _, _)
apply_removes(ds, c, rs) ==
    IF rs = <<>>
    THEN [panic |-> FALSE, defaults |-> ds]
    ELSE LET s == remove_step(ds, c, Head(rs))
         IN  IF s.panic THEN s ELSE apply_removes(s.defaults, c, Tail(rs))

\* Lines 409-446 as a function: the final list, or an abort.
merge_process_env(ds, ovs) ==
    IF index_panics(ds)
    THEN [panic |-> TRUE, defaults |-> ds]
    ELSE LET c == build_cache(ds)
             s == apply_overrides(ds, c, <<>>, ovs)
         IN  apply_removes(s.defaults, c, s.removes)

(***************************************************************************)
(* Results, mounts, specs                                                  *)
(***************************************************************************)

\* anyhow::Result<T>.
Ok(x) == [ok |-> TRUE, val |-> x]
Err(msg) == [ok |-> FALSE, err |-> msg]

\* oci_spec::runtime::Mount.  A destination is an absolute path string, kept
\* as the pieces between its '/' characters (<<"dev", "pts">> is /dev/pts,
\* <<"data", "">> is /data/, <<>> is /): merge_mounts keys on the text of the
\* path, so /data and /data/ are two destinations.  A source is a string in
\* tokens; typ and each option are plain strings.
Mount(destination, source, typ, options) ==
    [destination |-> destination, source |-> source, typ |-> typ, options |-> options]

\* The per-container path regex the fragments and the image volumes share:
\* "^/run/kata-containers/shared/containers/[a-z0-9]+-[a-z0-9]+-" file_name "$".
SharedPrefix == "^/run/kata-containers/shared/containers/[a-z0-9]+-[a-z0-9]+-"
shared_source(file_name) == <<SharedPrefix, file_name, "$">>

\* cri.rs lines 13-78.
DEFAULT_MOUNTS ==
    << Mount(<<"proc">>, <<"^proc$">>, "proc", <<"nosuid", "noexec", "nodev">>),
       Mount(<<"dev">>, <<"^tmpfs$">>, "tmpfs",
             <<"nosuid", "strictatime", "mode=755", "size=65536k">>),
       Mount(<<"dev", "pts">>, <<"^devpts$">>, "devpts",
             <<"nosuid", "noexec", "newinstance", "ptmxmode=0666", "mode=0620", "gid=5">>),
       Mount(<<"dev", "mqueue">>, <<"^mqueue$">>, "mqueue", <<"nosuid", "noexec", "nodev">>),
       Mount(<<"dev", "shm">>, <<"^/run/kata-containers/sandbox/shm$">>, "bind", <<"rbind">>),
       Mount(<<"sys">>, <<"^sysfs$">>, "sysfs", <<"nosuid", "noexec", "nodev", "ro">>) >>

\* cri.rs lines 208-212 and 223-227: every "ro" becomes "rw", in place.
ro_to_rw(options) ==
    [k \in DOMAIN options |-> IF options[k] = "ro" THEN "rw" ELSE options[k]]

\* A plausible slip: only sysfs is widened, cgroup is forgotten.
container_privileged_sysfs_only(mounts) ==
    [k \in DOMAIN mounts |->
        IF mounts[k].typ = "sysfs"
        THEN [mounts[k] EXCEPT !.options = ro_to_rw(mounts[k].options)]
        ELSE mounts[k]]

\* cri.rs lines 193-231: the privileged scan of a regular container's mounts.
container_privileged(mounts) ==
    [k \in DOMAIN mounts |->
        IF mounts[k].typ = "sysfs" \/ mounts[k].typ = "cgroup"
        THEN [mounts[k] EXCEPT !.options = ro_to_rw(mounts[k].options)]
        ELSE mounts[k]]

\* cri.rs lines 297-322: the privileged scan of the sandbox's mounts.
sandbox_privileged(mounts) ==
    [k \in DOMAIN mounts |->
        IF mounts[k].typ = "sysfs"
        THEN [mounts[k] EXCEPT !.options = ro_to_rw(mounts[k].options)]
        ELSE mounts[k]]

\* The Process both cri.rs templates start from (lines 93-101, 251-259).
root_process(cwd) ==
    [user |-> [uid |-> 0, gid |-> 0], cwd |-> cwd, args |-> None, env |-> None]

HOSTNAME_ENV == <<"^", "HOSTNAME", "=", ".+">>
PATH_ENV ==
    <<"^", "PATH", "=", "/usr/local/sbin:/usr/local/bin:/usr/sbin:/usr/bin:/sbin:/bin", "$">>
TERM_ENV == <<"TERM", "=", "xterm">>

\* cri.rs lines 80-236.
cri_get_container_rules(privileged, tty) ==
    LET env == <<HOSTNAME_ENV, PATH_ENV>> \o (IF tty THEN <<TERM_ENV>> ELSE <<>>)
        mounts ==
            DEFAULT_MOUNTS
            \o << Mount(<<"sys", "fs", "cgroup">>, <<"^cgroup$">>, "cgroup",
                        <<"nosuid", "noexec", "nodev", "relatime", "ro">>) >>
            \o << Mount(<<"etc", "hostname">>, shared_source("hostname"), "bind",
                        <<"rbind", "rprivate", "rw">>),
                  Mount(<<"etc", "hosts">>, shared_source("hosts"), "bind",
                        <<"rbind", "rprivate", "rw">>),
                  Mount(<<"etc", "resolv.conf">>, shared_source("resolv.conf"), "bind",
                        <<"rbind", "rprivate", "rw">>) >>
    IN  [version |-> "1.0.2-dev",
         process |-> Some([root_process("/") EXCEPT !.env = Some(env)]),
         mounts |-> Some(IF privileged THEN container_privileged(mounts) ELSE mounts)]

\* A plausible slip: the sandbox takes the process of a regular container,
\* HOSTNAME and PATH patterns included.
cri_get_sandbox_rules_container_process(privileged, tty) ==
    LET mounts ==
            DEFAULT_MOUNTS
            \o << Mount(<<"etc", "resolv.conf">>, shared_source("resolv.conf"), "bind",
                        <<"rbind", "ro">>) >>
    IN  [version |-> "1.0.2-dev",
         process |-> cri_get_container_rules(privileged, tty).process,
         mounts |-> Some(IF privileged THEN sandbox_privileged(mounts) ELSE mounts)]

\* cri.rs lines 238-327.
cri_get_sandbox_rules(privileged, tty) ==
    LET env == IF tty THEN <<TERM_ENV>> ELSE <<>>
        mounts ==
            DEFAULT_MOUNTS
            \o << Mount(<<"etc", "resolv.conf">>, shared_source("resolv.conf"), "bind",
                        <<"rbind", "ro">>) >>
    IN  [version |-> "1.0.2-dev",
         process |-> Some([root_process("/") EXCEPT !.env = Some(env)]),
         mounts |-> Some(IF privileged THEN sandbox_privileged(mounts) ELSE mounts)]

\* A plausible slip: the flavour test is inverted.
cri_get_rules_flavours_swapped(is_sandbox, privileged, tty) ==
    IF is_sandbox
    THEN cri_get_container_rules(privileged, tty)
    ELSE cri_get_sandbox_rules(privileged, tty)

\* cri.rs lines 329-335.
cri_get_rules(is_sandbox, privileged, tty) ==
    IF ~is_sandbox
    THEN cri_get_container_rules(privileged, tty)
    ELSE cri_get_sandbox_rules(privileged, tty)

\* oci.rs lines 7-20 and 22-31.
empty_process == root_process("")
empty_spec == [version |-> "", process |-> None, mounts |-> None]

IPV4 == "((25[0-5]|(2[0-4]|1\\d|[1-9]|)\\d).?\\b){4}"
IPV4_PORT == "((25[0-5]|(2[0-4]|1\\d|[1-9]|)\\d).?\\b){4}:[0-9]+"

\* kubernetes.rs lines 15-77.
kubernetes_get_container_rules ==
    LET env ==
          << <<"^", "[A-Z0-9_]+_SERVICE_HOST", "=", "^", IPV4, "$">>,
             <<"^", "[A-Z0-9_]+_SERVICE_PORT", "=", "[0-9]+">>,
             <<"^", "[A-Z0-9_]+_SERVICE_PORT_[A-Z]+", "=", "[0-9]+">>,
             <<"^", "[A-Z0-9_]+_PORT", "=", "[a-z]+://", "^", IPV4_PORT>>,
             <<"^", "[A-Z0-9_]+_PORT_[0-9]+_[A-Z]+", "=", "[a-z]+://", "^", IPV4_PORT>>,
             <<"^", "[A-Z0-9_]+_PORT_[0-9]+_[A-Z]+_PROTO", "=", "[a-z]+">>,
             <<"^", "[A-Z0-9_]+_PORT_[0-9]+_[A-Z]+_PORT", "=", "[0-9]+">>,
             <<"^", "[A-Z0-9_]+_PORT_[0-9]+_[A-Z]+_ADDR", "=", "^", IPV4, "$">> >>
        mounts ==
          << Mount(<<"dev", "termination-log">>, shared_source("termination-log"), "bind",
                   <<"rbind", "rprivate", "rw">>),
             Mount(<<"var", "run", "secrets", "kubernetes.io", "serviceaccount">>,
                   shared_source("serviceaccount"), "bind",
                   <<"rbind", "rprivate", "ro">>) >>
    IN  [version |-> "",
         process |-> Some([empty_process EXCEPT !.env = Some(env)]),
         mounts |-> Some(mounts)]

\* kubernetes.rs lines 80-84.
kubernetes_get_sandbox_rules == [version |-> "", process |-> None, mounts |-> None]

\* A plausible slip: the sandbox is given the fragment of a regular container.
kubernetes_get_rules_same_for_sandbox(is_sandbox) == kubernetes_get_container_rules

\* kubernetes.rs lines 86-92.
kubernetes_get_rules(is_sandbox) ==
    IF ~is_sandbox THEN kubernetes_get_container_rules ELSE kubernetes_get_sandbox_rules

(***************************************************************************)
(* Image configuration (oci_spec::image::ImageConfiguration)               *)
(***************************************************************************)

\* config() is an Option; so is each field of the config.
ImageConfiguration(entrypoint, cmd, working_dir, env, volumes) ==
    [config |-> Some([entrypoint |-> entrypoint, cmd |-> cmd, working_dir |-> working_dir,
                      env |-> env, volumes |-> volumes])]
NoConfig == [config |-> None]

\* Option<Vec<_>> read as "the list, or an empty one".
or_empty(opt) == IF opt = None THEN <<>> ELSE opt[1]

\* image.rs lines 40-54: each image env is anchored, "^" env "$".
image_get_env(image_config) ==
    IF image_config.config # None /\ image_config.config[1].env # None
    THEN LET image_envs == image_config.config[1].env[1]
         IN  [k \in DOMAIN image_envs |-> <<"^">> \o image_envs[k] \o <<"$">>]
    ELSE <<>>

\* Path::file_name: the last component, with a trailing '/' (a final ""
\* component) ignored; None for the root and for a path that ends in "..".
RECURSIVE file_name(_)
file_name(path) ==
    IF path = <<>> THEN None
    ELSE IF path[Len(path)] = "" THEN file_name(SubSeq(path, 1, Len(path) - 1))
    ELSE IF path[Len(path)] = ".." THEN None
    ELSE Some(path[Len(path)])

\* cri.rs lines 448-483.  file_name().unwrap() aborts on a volume without a
\* final component.
get_image_volume_mounts(image_config) ==
    IF image_config.config # None /\ image_config.config[1].volumes # None
    THEN LET volumes == image_config.config[1].volumes[1]
         IN  IF \E k \in DOMAIN volumes : file_name(volumes[k]) = None
             THEN [panic |-> TRUE, mounts |-> <<>>]
             ELSE [panic |-> FALSE,
                   mounts |->
                      [k \in DOMAIN volumes |->
                          Mount(volumes[k], shared_source(file_name(volumes[k])[1]), "bind",
                                <<"rbind", "rprivate", "rw">>)]]
    ELSE [panic |-> FALSE, mounts |-> <<>>]

(***************************************************************************)
(* cri.rs: merge_process_args, merge_process_cwd                           *)
(***************************************************************************)

\* Lines 344-360.
image_cmd_of(image_config) ==
    IF image_config.config # None THEN or_empty(image_config.config[1].cmd) ELSE <<>>
image_entrypoint_of(image_config) ==
    IF image_config.config # None THEN or_empty(image_config.config[1].entrypoint) ELSE <<>>

\* A plausible slip: the image entrypoint is prepended even when the container
\* names its own command.
merge_process_args_keeps_entrypoint(container_command, container_args, image_config) ==
    LET image_cmd == image_cmd_of(image_config)
        image_entrypoint == image_entrypoint_of(image_config)
        args == IF container_command = <<>> /\ container_args = <<>>
                THEN container_args \o image_cmd
                ELSE container_args
        command == IF ~(Len(image_entrypoint) = 1 /\ image_entrypoint[1] = "")
                   THEN image_entrypoint \o container_command
                   ELSE container_command
    IN  IF command = <<>> /\ args = <<>>
        THEN Err("no command specified")
        ELSE Ok(command \o args)

\* A plausible slip: the check for an empty result is left out.
merge_process_args_never_fails(container_command, container_args, image_config) ==
    LET image_cmd == image_cmd_of(image_config)
        image_entrypoint == image_entrypoint_of(image_config)
        args == IF container_command = <<>> /\ container_args = <<>>
                THEN container_args \o image_cmd
                ELSE container_args
        command == IF /\ container_command = <<>>
                      /\ ~(Len(image_entrypoint) = 1 /\ image_entrypoint[1] = "")
                   THEN container_command \o image_entrypoint
                   ELSE container_command
    IN  Ok(command \o args)

\* Lines 339-380.
merge_process_args(container_command, container_args, image_config) ==
    LET image_cmd == image_cmd_of(image_config)
        image_entrypoint == image_entrypoint_of(image_config)
        args == IF container_command = <<>> /\ container_args = <<>>
                THEN container_args \o image_cmd
                ELSE container_args
        command == IF /\ container_command = <<>>
                      /\ ~(Len(image_entrypoint) = 1 /\ image_entrypoint[1] = "")
                   THEN container_command \o image_entrypoint
                   ELSE container_command
    IN  IF command = <<>> /\ args = <<>>
        THEN Err("no command specified")
        ELSE Ok(command \o args)

\* A plausible slip: the image's working directory is preferred to the
\* container's.
merge_process_cwd_image_first(container_working_dir, image_config) ==
    LET image_working_dir ==
            IF image_config.config # None /\ image_config.config[1].working_dir # None
            THEN image_config.config[1].working_dir[1]
            ELSE ""
    IN  IF image_working_dir # ""
        THEN image_working_dir
        ELSE IF container_working_dir # "" THEN container_working_dir ELSE ""

\* Lines 384-405.
merge_process_cwd(container_working_dir, image_config) ==
    LET image_working_dir ==
            IF image_config.config # None /\ image_config.config[1].working_dir # None
            THEN image_config.config[1].working_dir[1]
            ELSE ""
    IN  IF container_working_dir # ""
        THEN container_working_dir
        ELSE IF image_working_dir # "" THEN image_working_dir ELSE ""

(***************************************************************************)
(* cri.rs: merge_mounts                                                    *)
(***************************************************************************)

\* HashMap::entry(destination).or_insert_with(..) = mount, for each mount of
\* the list in turn (lines 496-500, 502-506).
RECURSIVE insert_all(_, _)
insert_all(results, list) ==
    IF list = <<>>
    THEN results
    ELSE LET mount == Head(list)
         IN  insert_all([d \in DOMAIN results \cup {mount.destination} |->
                            IF d = mount.destination THEN mount ELSE results[d]],
                        Tail(list))

\* A plausible slip: the two lists are inserted in the wrong order, so extras
\* overwrite mounts.
merge_mounts_map_extras_last(mounts, extras) == insert_all(insert_all(<<>>, mounts), extras)

\* Lines 488-506: the map after extras, then mounts, have been inserted.
merge_mounts_map(mounts, extras) == insert_all(insert_all(<<>>, extras), mounts)

RECURSIVE enumerate(_)
enumerate(S) ==
    IF S = {} THEN <<>>
    ELSE LET x == CHOOSE y \in S : TRUE IN <<x>> \o enumerate(S \ {x})

reverse(s) == [k \in DOMAIN s |-> s[Len(s) + 1 - k]]

\* HashMap::values() (line 508).  The map is keyed with RandomState, so the
\* order of the values differs from run to run.  The model lets the order be
\* one enumeration of the values or its reverse: enough for the order to be
\* run-dependent, and no property below reads more of it than that.
hash_orders(results) ==
    LET values == {results[d] : d \in DOMAIN results}
        one == enumerate(values)
    IN  {one, reverse(one)}

\* Lines 487-509: the lists merge_mounts may return.
merge_mounts(mounts, extras) == hash_orders(merge_mounts_map(mounts, extras))

(***************************************************************************)
(* pod_yaml.rs: the manifest accessors                                     *)
(*                                                                         *)
(* A serde_yaml::Value is a tagged record: an absent key (get() is None),  *)
(* a string, a bool, a sequence, or a mapping.                             *)
(***************************************************************************)

Y_absent == [tag |-> "absent"]
Y_str(x) == [tag |-> "str", str |-> x]
Y_bool(b) == [tag |-> "bool", bool |-> b]
Y_seq(xs) == [tag |-> "seq", seq |-> xs]
Y_map(m) == [tag |-> "map", map |-> m]

\* Lines 34-56: a resolved volume.
Volume(type, readonly, host_path, local) ==
    [type |-> type, readonly |-> readonly, host_path |-> host_path, local |-> local]

\* Lines 252-285: one volume declaration.  vol.keys are the keys of the
\* mapping; the first matching branch of the else-if chain decides.
resolve_volume(vol) ==
    IF "emptyDir" \in vol.keys
    THEN Volume("EmptyDir", FALSE, <<>>,
                vol.emptyDir.tag = "map" /\ vol.emptyDir.map = {})
    ELSE IF "secret" \in vol.keys THEN Volume("Secret", TRUE, <<>>, FALSE)
    ELSE IF "configMap" \in vol.keys THEN Volume("ConfigMap", TRUE, <<>>, FALSE)
    ELSE IF "downwardAPI" \in vol.keys THEN Volume("DownwardAPI", TRUE, <<>>, FALSE)
    ELSE IF "projected" \in vol.keys THEN Volume("Projected", TRUE, <<>>, FALSE)
    ELSE IF "hostPath" \in vol.keys
    THEN Volume("HostPath", FALSE,
                IF vol.path.tag = "str" THEN vol.path.str ELSE <<>>, FALSE)
    ELSE Volume("Unknown", FALSE, <<>>, FALSE)

\* Lines 243-296: volumes.insert(name, ..) for each declaration in turn; a
\* later declaration of a name replaces an earlier one.
RECURSIVE insert_volumes(_, _)
insert_volumes(volumes, seq) ==
    IF seq = <<>>
    THEN Ok(volumes)
    ELSE LET vol == Head(seq)
         IN  IF vol.name.tag # "str"
             THEN Err("failed to parse name into str")
             ELSE insert_volumes(
                      [n \in DOMAIN volumes \cup {vol.name.str} |->
                          IF n = vol.name.str THEN resolve_volume(vol) ELSE volumes[n]],
                      Tail(seq))

\* Lines 238-301.  A volumes field that is not a sequence is read as no volumes.
get_volmues(spec_volumes) ==
    IF spec_volumes.tag = "seq"
    THEN insert_volumes(<<>>, spec_volumes.seq)
    ELSE Ok(<<>>)

\* A plausible slip: the declared readOnly is read even for a read-only
\* volume, and so can reset it.
mount_read_only_declared_wins(volume, volume_mount) ==
    IF volume_mount.readOnly.tag = "absent"
    THEN Ok(volume.readonly)
    ELSE IF volume_mount.readOnly.tag = "bool"
         THEN Ok(volume_mount.readOnly.bool)
         ELSE Err("failed to parse readOnly into bool")

\* Lines 417-425: the effective read-only flag of one volume mount.
mount_read_only(volume, volume_mount) ==
    IF volume.readonly
    THEN Ok(TRUE)
    ELSE IF volume_mount.readOnly.tag = "absent"
         THEN Ok(FALSE)
         ELSE IF volume_mount.readOnly.tag = "bool"
              THEN Ok(volume_mount.readOnly.bool)
              ELSE Err("failed to parse readOnly into bool")

\* Lines 399-404: the propagation string, "None" when the key is absent.
mount_propagation(volume_mount) ==
    IF volume_mount.mountPropagation.tag = "absent"
    THEN Ok("None")
    ELSE IF volume_mount.mountPropagation.tag = "str"
         THEN Ok(volume_mount.mountPropagation.str)
         ELSE Err("failed to parse mountPropagation into string")

\* A plausible slip: a propagation the match does not know falls back to
\* rprivate.
propagation_option_falls_back(propagation) ==
    IF propagation = "HostToContainer" THEN Ok("rslave")
    ELSE IF propagation = "Bidirectional" THEN Ok("rshared")
    ELSE Ok("rprivate")

\* Lines 436-449.
propagation_option(propagation) ==
    IF propagation = "None" THEN Ok("rprivate")
    ELSE IF propagation = "HostToContainer" THEN Ok("rslave")
    ELSE IF propagation = "Bidirectional" THEN Ok("rshared")
    ELSE Err("Unknown mountPropagation type")

\* Lines 392-464: one iteration of the loop over volumeMounts, with its
\* early returns in the order of the code.
resolve_mount(volumes, volume_mount) ==
    IF volume_mount.mountPath.tag # "str"
    THEN Err("failed to prase mountPath into string")
    ELSE LET propagation == mount_propagation(volume_mount)
         IN
         IF ~propagation.ok THEN propagation
         ELSE IF volume_mount.name.tag # "str"
         THEN Err("failed to prase name into string")
         ELSE IF volume_mount.name.str \notin DOMAIN volumes
         THEN Err("failed to find volume")
         ELSE LET volume == volumes[volume_mount.name.str]
                  read_only == mount_read_only(volume, volume_mount)
                  option == propagation_option(propagation.val)
              IN
              IF ~read_only.ok THEN read_only
              ELSE IF ~option.ok THEN option
              ELSE Ok(Mount(volume_mount.mountPath.str,
                            volume.host_path,
                            IF volume.local THEN "local" ELSE "bind",
                            <<"rbind", option.val, IF read_only.val THEN "ro" ELSE "rw">>))

RECURSIVE resolve_mounts(_, _, _)
resolve_mounts(volumes, results, volume_mounts) ==
    IF volume_mounts = <<>>
    THEN Ok(results)
    ELSE LET mount == resolve_mount(volumes, Head(volume_mounts))
         IN  IF ~mount.ok THEN mount
             ELSE resolve_mounts(volumes, Append(results, mount.val), Tail(volume_mounts))

\* Lines 384-469: PodYaml::get_mounts, self.volumes being `volumes`.
pod_get_mounts(volumes, container) ==
    IF container.volumeMounts.tag = "absent"
    THEN Ok(<<>>)
    ELSE IF container.volumeMounts.tag # "seq"
         THEN Err("failed to parse volumeMounts into sequence")
         ELSE resolve_mounts(volumes, <<>>, container.volumeMounts.seq)

\* A container of the manifest, by the keys the accessors read;
\* securityContext.privileged and securityContext.allowPrivilegeEscalation are
\* flattened.  serde_yaml::Value::Null answers get() with None for every key.
NullContainer ==
    [name |-> Y_absent, image |-> Y_absent, privileged |-> Y_absent,
     allowPrivilegeEscalation |-> Y_absent, tty |-> Y_absent, workingDir |-> Y_absent,
     command |-> Y_absent, args |-> Y_absent, env |-> Y_absent, volumeMounts |-> Y_absent]

\* Lines 117-123.
get_name(container) ==
    IF container.name.tag = "str"
    THEN Ok(container.name.str)
    ELSE Err("failed to parse name into string")

\* Lines 125-147.
get_security_context(container) ==
    IF container.privileged.tag \notin {"absent", "bool"}
    THEN Err("failed to parse privileged into bool")
    ELSE IF container.allowPrivilegeEscalation.tag \notin {"absent", "bool"}
    THEN Err("failed to parse allowPrivilegeEscalation into bool")
    ELSE Ok([privileged |->
                 container.privileged.tag = "bool" /\ container.privileged.bool,
             allow_elevated |->
                 /\ container.allowPrivilegeEscalation.tag = "bool"
                 /\ container.allowPrivilegeEscalation.bool])

\* Lines 303-312.
get_debugging(container) ==
    IF container.tty.tag = "absent" THEN Ok([tty |-> FALSE])
    ELSE IF container.tty.tag = "bool" THEN Ok([tty |-> container.tty.bool])
    ELSE Err("failed to parse tty into bool")

\* Lines 362-368, 372-378: a sequence keeps its string elements; any other
\* value is read as the empty list.
strings_of(v) ==
    IF v.tag = "seq"
    THEN LET kept == SelectSeq(v.seq, LAMBDA arg : arg.tag = "str")
         IN  [k \in DOMAIN kept |-> kept[k].str]
    ELSE <<>>

\* Lines 347-382.
get_entry_point(container) ==
    IF container.workingDir.tag \notin {"absent", "str"}
    THEN Err("failed to parse workingDir into string")
    ELSE Ok([working_dir |->
                 IF container.workingDir.tag = "str" THEN container.workingDir.str ELSE "",
             command |-> strings_of(container.command),
             args |-> strings_of(container.args)])

\* Lines 149-207: kubectl get configmap <name>, then data[key].  `cluster`
\* maps the config maps that exist to their data.
get_value_from_config_map(map, cluster) ==
    IF map.name \notin DOMAIN cluster
    THEN Err("kubectl failed")
    ELSE IF map.key \notin DOMAIN cluster[map.name]
         THEN Err("failed to find value using key from configMap")
         ELSE Ok(cluster[map.name][map.key])

\* A plausible slip: every reference that is no configMapKeyRef yields the
\* pattern, whatever its kind.
get_value_from_any_reference(env, name, cluster) ==
    IF env.valueFrom.tag = "absent"
    THEN Ok(name \o <<"=">>)
    ELSE IF env.valueFrom.tag # "map"
    THEN Err("failed to convert valueFrom into mapping")
    ELSE LET value_from == env.valueFrom.map
         IN  IF "configMapKeyRef" \in value_from.keys
             THEN LET value == get_value_from_config_map(value_from.configMapKeyRef, cluster)
                  IN  IF value.ok
                      THEN Ok(<<"^">> \o name \o <<"=">> \o value.val \o <<"$">>)
                      ELSE value
             ELSE Ok(<<"^">> \o name \o <<"=", ".">>)

\* Lines 209-236: the rule of an env entry that has no value key.
get_value_from(env, name, cluster) ==
    IF env.valueFrom.tag = "absent"
    THEN Ok(name \o <<"=">>)
    ELSE IF env.valueFrom.tag # "map"
    THEN Err("failed to convert valueFrom into mapping")
    ELSE LET value_from == env.valueFrom.map
         IN  IF "configMapKeyRef" \in value_from.keys
             THEN LET value == get_value_from_config_map(value_from.configMapKeyRef, cluster)
                  IN  IF value.ok
                      THEN Ok(<<"^">> \o name \o <<"=">> \o value.val \o <<"$">>)
                      ELSE value
             ELSE IF \/ "secretKeyRef" \in value_from.keys
                     \/ "fieldRef" \in value_from.keys
                     \/ "resourceFieldRef" \in value_from.keys
                  THEN Ok(<<"^">> \o name \o <<"=", ".">>)
                  ELSE Err("unsupported reference")

\* Lines 322-340: one iteration of the loop over env.
env_rule(map, cluster) ==
    IF map.name.tag # "str"
    THEN Err("failed to parse name into string")
    ELSE IF map.value.tag # "absent"
         THEN IF map.value.tag = "str"
              THEN Ok(map.name.str \o <<"=">> \o map.value.str)
              ELSE Err("failed to parse value into string")
         ELSE get_value_from(map, map.name.str, cluster)

RECURSIVE env_rules(_, _, _)
env_rules(results, env, cluster) ==
    IF env = <<>>
    THEN Ok(results)
    ELSE LET rule == env_rule(Head(env), cluster)
         IN  IF ~rule.ok THEN rule
             ELSE env_rules(Append(results, rule.val), Tail(env), cluster)

\* Lines 314-344: PodYaml::get_env.
pod_get_env(container, cluster) ==
    IF container.env.tag = "absent"
    THEN Ok(<<>>)
    ELSE IF container.env.tag # "seq"
         THEN Err("failed to parse env into sequence")
         ELSE env_rules(<<>>, container.env.seq, cluster)

\* A plausible slip: every manifest is read like a Pod, whatever its kind.
pod_yaml_from_like_a_pod(yaml) ==
    LET volumes == get_volmues(yaml.spec.volumes)
    IN  IF ~volumes.ok THEN volumes
        ELSE Ok([kind |-> IF yaml.kind.tag = "str" THEN yaml.kind.str ELSE "",
                 containers |->
                     IF yaml.spec.containers.tag = "seq"
                     THEN Some(yaml.spec.containers.seq) ELSE None,
                 init_containers |->
                     IF yaml.spec.initContainers.tag = "seq"
                     THEN Some(yaml.spec.initContainers.seq) ELSE None,
                 volumes |-> volumes.val])

\* Lines 77-115: PodYaml::from.  A Pod keeps its pod spec under spec, the
\* other kinds under spec.template.spec; a missing kind reads as "".
pod_yaml_from(yaml) ==
    IF yaml.kind.tag \notin {"absent", "str"}
    THEN Err("failed to parse kind into str")
    ELSE LET kind == IF yaml.kind.tag = "str" THEN yaml.kind.str ELSE ""
         IN  IF kind \notin {"Pod", "Job", "Deployment", "ReplicationController"}
             THEN Err("unsupported kind")
             ELSE LET spec == IF kind = "Pod" THEN yaml.spec ELSE yaml.template_spec
                      volumes == get_volmues(spec.volumes)
                  IN  IF ~volumes.ok THEN volumes
                      ELSE Ok([kind |-> kind,
                               containers |->
                                   IF spec.containers.tag = "seq"
                                   THEN Some(spec.containers.seq) ELSE None,
                               init_containers |->
                                   IF spec.initContainers.tag = "seq"
                                   THEN Some(spec.initContainers.seq) ELSE None,
                               volumes |-> volumes.val])

\* A pod spec, and the Null a missing spec or template indexes to.
PodSpec(volumes, containers, initContainers) ==
    [volumes |-> volumes, containers |-> containers, initContainers |-> initContainers]
NullSpec == PodSpec(Y_absent, Y_absent, Y_absent)

(***************************************************************************)
(* image.rs: pull_image_config                                             *)
(***************************************************************************)

\* Lines 9-38: skopeo inspect --config.  `registry` maps the image references
\* skopeo can resolve to their configuration; anything else is a failure.
pull_image_config(image_ref, registry) ==
    IF image_ref \in DOMAIN registry
    THEN Ok(registry[image_ref])
    ELSE Err("failed to get image config")

\* kubernetes.rs lines 11-13 and 94-103.
KUBERNETES_PAUSE_NAME == "pause"
get_pause_image_ref == "registry.k8s.io/pause:3.6"

(***************************************************************************)
(* policy.rs: the container policy builder                                 *)
(***************************************************************************)

\* Lines 217-231: the env list of a spec, empty when there is none.
spec_env(spec) == IF spec.process # None THEN or_empty(spec.process[1].env) ELSE <<>>

\* A plausible slip: the second merge has its arguments swapped, the image's
\* env being the list the results are merged into.
get_env_image_as_defaults(spec, container, image_config, kube_rules, cluster) ==
    LET m1 == merge_process_env(spec_env(spec), spec_env(kube_rules))
        m2 == merge_process_env(image_get_env(image_config), m1.defaults)
        yaml_envs == pod_get_env(container, cluster)
        m3 == merge_process_env(m2.defaults, yaml_envs.val)
    IN  IF m1.panic \/ m2.panic THEN [panic |-> TRUE]
        ELSE IF ~yaml_envs.ok THEN [panic |-> FALSE, res |-> yaml_envs]
        ELSE IF m3.panic THEN [panic |-> TRUE]
        ELSE [panic |-> FALSE, res |-> Ok(m3.defaults)]

\* Lines 204-244: ContainerPolicy::get_env.  The three merges run in this
\* order; the container's env is read after the first two.
get_env(spec, container, image_config, kube_rules, cluster) ==
    LET m1 == merge_process_env(spec_env(spec), spec_env(kube_rules))
        m2 == merge_process_env(m1.defaults, image_get_env(image_config))
        yaml_envs == pod_get_env(container, cluster)
        m3 == merge_process_env(m2.defaults, yaml_envs.val)
    IN  IF m1.panic \/ m2.panic THEN [panic |-> TRUE]
        ELSE IF ~yaml_envs.ok THEN [panic |-> FALSE, res |-> yaml_envs]
        ELSE IF m3.panic THEN [panic |-> TRUE]
        ELSE [panic |-> FALSE, res |-> Ok(m3.defaults)]

\* Lines 246-281: ContainerPolicy::get_process.
get_process(spec, container, image_config, kube_rules, cluster) ==
    LET entry_point == get_entry_point(container)
        process == IF spec.process # None THEN spec.process[1] ELSE empty_process
        args == merge_process_args(entry_point.val.command, entry_point.val.args, image_config)
        cwd == merge_process_cwd(entry_point.val.working_dir, image_config)
        env == get_env(spec, container, image_config, kube_rules, cluster)
    IN  IF ~entry_point.ok THEN [panic |-> FALSE, res |-> entry_point]
        ELSE IF ~args.ok THEN [panic |-> FALSE, res |-> args]
        ELSE IF env.panic THEN [panic |-> TRUE]
        ELSE IF ~env.res.ok THEN env
        ELSE [panic |-> FALSE,
              res |-> Ok([spec EXCEPT !.process =
                            Some([process EXCEPT
                                    !.cwd = IF cwd # "" THEN cwd ELSE @,
                                    !.args = Some(args.val),
                                    !.env = Some(env.res.val)])])]

\* A plausible slip: the image volumes are merged before the orchestrator's
\* mounts, so an image volume beats an orchestrator mount.
get_mounts_map_image_first(spec, pod_mounts, image_volumes, kube_rules) ==
    LET r1 == merge_mounts_map(pod_mounts, image_volumes)
        r2 == IF kube_rules.mounts # None
              THEN merge_mounts_map(enumerate({r1[d] : d \in DOMAIN r1}), kube_rules.mounts[1])
              ELSE r1
    IN  IF spec.mounts # None
        THEN merge_mounts_map(enumerate({r2[d] : d \in DOMAIN r2}), spec.mounts[1])
        ELSE r2

\* Lines 303-315 up to the order of each merge: the destination map after
\* the three two-way merges.  A merge only reads its first list by
\* destination, and that list holds one mount per destination after the
\* first merge, so the order an earlier merge returned does not matter.
get_mounts_map(spec, pod_mounts, image_volumes, kube_rules) ==
    LET r1 == IF kube_rules.mounts # None
              THEN merge_mounts_map(pod_mounts, kube_rules.mounts[1])
              ELSE insert_all(<<>>, pod_mounts)
        r2 == merge_mounts_map(enumerate({r1[d] : d \in DOMAIN r1}), image_volumes)
    IN  IF spec.mounts # None
        THEN merge_mounts_map(enumerate({r2[d] : d \in DOMAIN r2}), spec.mounts[1])
        ELSE r2

\* Lines 283-320: ContainerPolicy::get_mounts; pod_yaml is None for the
\* sandbox.  The specs it may leave, one per order of the last merge.
get_mounts(spec, pod_yaml, container, image_config, kube_rules) ==
    LET pod_mounts == IF pod_yaml # None
                      THEN pod_get_mounts(pod_yaml[1].volumes, container)
                      ELSE Ok(<<>>)
        image_volumes == get_image_volume_mounts(image_config)
    IN  IF ~pod_mounts.ok THEN {[panic |-> FALSE, res |-> pod_mounts]}
        ELSE IF image_volumes.panic THEN {[panic |-> TRUE]}
        ELSE {[panic |-> FALSE, res |-> Ok([spec EXCEPT !.mounts = Some(results)])] :
                 results \in hash_orders(get_mounts_map(spec, pod_mounts.val,
                                                        image_volumes.mounts, kube_rules))}

\* Lines 22-33.
ContainerPolicy(spec) == [oci_spec |-> spec, custom |-> Some([layers |-> <<>>])]

\* Lines 42-50.
CC_POLICY_VERSION == "0.1.0"
CcPolicy_new == [version |-> CC_POLICY_VERSION, containers |-> <<>>]

(***************************************************************************)
(* Inputs of the merge_process_env harness                                 *)
(***************************************************************************)

MaxDefaults == 3
MaxOverrides == 3

A1 == Rule(<<"A">>, <<"1">>)
B2 == Rule(<<"B">>, <<"2">>)
B3 == Rule(<<"B">>, <<"3">>)
C3 == Rule(<<"C">>, <<"3">>)
D1 == Rule(<<"D">>, <<"1">>)
D2 == Rule(<<"D">>, <<"2">>)

DefaultsEntries == {A1, B2, C3, <<"D">>}
OverridesEntries == {B3, D1, D2, <<"B">>, <<"C">>}

EnvCalls ==
    {[fn |-> "merge_process_env", defaults |-> ds, overrides |-> ovs] :
        ds \in SeqUpTo(DefaultsEntries, MaxDefaults),
        ovs \in SeqUpTo(OverridesEntries, MaxOverrides)}

NoCollaborators ==
    /\ skopeo = <<>>
    /\ kubectl = <<>>

BuilderIdle ==
    /\ pod = None
    /\ cc_policy = CcPolicy_new
    /\ stage = "idle"
    /\ idx = 1
    /\ pc = "idle"
    /\ cur = NullContainer
    /\ oci_spec = empty_spec
    /\ kube = empty_spec
    /\ image = NoConfig

EnvIdle ==
    /\ defaults = <<>>
    /\ cache = <<>>
    /\ removes = <<>>
    /\ i = 1
    /\ epc = "idle"

InitMergeEnv ==
    /\ call \in EnvCalls
    /\ ret = None
    /\ NoCollaborators
    /\ BuilderIdle
    /\ defaults = call.defaults
    /\ cache = <<>>
    /\ removes = <<>>
    /\ i = 1
    /\ epc = "index"

\* Lines 410-419.
EnvIndex ==
    /\ epc = "index"
    /\ IF index_panics(defaults)
       THEN /\ epc' = "panic"
            /\ UNCHANGED cache
       ELSE /\ cache' = build_cache(defaults)
            /\ epc' = "overrides"
    /\ UNCHANGED <<call, ret, defaults, removes, i, cvars, bvars>>

\* Lines 421-435, one override per step.
EnvOverride ==
    /\ epc = "overrides"
    /\ i <= Len(call.overrides)
    /\ LET s == override_step(defaults, cache, removes, call.overrides[i])
       IN  /\ defaults' = s.defaults
           /\ removes' = s.removes
    /\ i' = i + 1
    /\ UNCHANGED <<call, ret, cache, epc, cvars, bvars>>

\* Line 435 -> 438: the loop over overrides is exhausted.
EnvOverridesEnd ==
    /\ epc = "overrides"
    /\ i > Len(call.overrides)
    /\ epc' = "removes"
    /\ UNCHANGED <<call, ret, defaults, cache, removes, i, cvars, bvars>>

\* Lines 438-443, one removal per step.
EnvRemove ==
    /\ epc = "removes"
    /\ removes # <<>>
    /\ LET s == remove_step(defaults, cache, Head(removes))
       IN  /\ defaults' = s.defaults
           /\ epc' = IF s.panic THEN "panic" ELSE "removes"
    /\ removes' = Tail(removes)
    /\ UNCHANGED <<call, ret, cache, i, cvars, bvars>>

\* Line 445: Ok(()).
EnvReturn ==
    /\ epc = "removes"
    /\ removes = <<>>
    /\ epc' = "done"
    /\ ret' = Some(defaults)
    /\ UNCHANGED <<call, defaults, cache, removes, i, cvars, bvars>>

NextMergeEnv ==
    \/ EnvIndex
    \/ EnvOverride
    \/ EnvOverridesEnd
    \/ EnvRemove
    \/ EnvReturn

SpecMergeEnv == InitMergeEnv /\ [][NextMergeEnv]_vars

(***************************************************************************)
(* The public functions of cri.rs and pod_yaml.rs, each applied to         *)
(* arguments drawn from bounded sets                                       *)
(***************************************************************************)

MaxMounts == 2
MaxVolumes == 1
MaxVolumeMounts == 1

RulesCalls ==
    {[fn |-> "get_rules", is_sandbox |-> s, privileged |-> p, tty |-> t] :
        s \in BOOLEAN, p \in BOOLEAN, t \in BOOLEAN}

\* Two destinations, and for each two mounts that differ in every other field.
SomeMounts ==
    {Mount(d, v[1], v[2], v[3]) :
        d \in {<<"x">>, <<"y">>},
        v \in {<<<<"/v1">>, "bind", <<"rbind", "ro">>>>, <<<<"/v2">>, "local", <<"rw">>>>}}

MountsCalls ==
    {[fn |-> "merge_mounts", mounts |-> ms, extras |-> es] :
        ms \in SeqUpTo(SomeMounts, MaxMounts), es \in SeqUpTo(SomeMounts, MaxMounts)}

\* A volume declaration named "v" of each kind the chain tells apart.
VolumeDecl(keys, emptyDir, path) ==
    [name |-> Y_str("v"), keys |-> keys, emptyDir |-> emptyDir, path |-> path]
SomeVolumes ==
    {VolumeDecl({"emptyDir"}, Y_map({}), Y_absent),
     VolumeDecl({"emptyDir"}, Y_map({"medium"}), Y_absent),
     VolumeDecl({"secret"}, Y_absent, Y_absent),
     VolumeDecl({"configMap"}, Y_absent, Y_absent),
     VolumeDecl({"downwardAPI"}, Y_absent, Y_absent),
     VolumeDecl({"projected"}, Y_absent, Y_absent),
     VolumeDecl({"hostPath"}, Y_absent, Y_str(<<"/data">>)),
     VolumeDecl({"nfs"}, Y_absent, Y_absent)}

VolumeMount(mountPath, name, mountPropagation, readOnly) ==
    [mountPath |-> mountPath, name |-> name,
     mountPropagation |-> mountPropagation, readOnly |-> readOnly]
SomeVolumeMounts ==
    {VolumeMount(Y_str(<<"data">>), Y_str(n), mp, ro) :
        n \in {"v", "w"},
        mp \in {Y_absent, Y_str("None"), Y_str("HostToContainer"),
                Y_str("Bidirectional"), Y_str("Private")},
        ro \in {Y_absent, Y_bool(TRUE), Y_bool(FALSE), Y_str("yes")}}

PodMountsCalls ==
    {[fn |-> "PodYaml::get_mounts",
      volumes |-> Y_seq(vs),
      container |-> [NullContainer EXCEPT !.volumeMounts = Y_seq(vms)]] :
        vs \in SeqUpTo(SomeVolumes, MaxVolumes),
        vms \in SeqUpTo(SomeVolumeMounts, MaxVolumeMounts)}

\* Env entries of every kind get_env and get_value_from tell apart, against
\* a cluster with one config map "cm" holding one key "k".
MaxEnvEntries == 2
EnvEntry(name, value, valueFrom) == [name |-> name, value |-> value, valueFrom |-> valueFrom]
ConfigMapKeyRef(name, key) ==
    Y_map([keys |-> {"configMapKeyRef"}, configMapKeyRef |-> [name |-> name, key |-> key]])
SomeEnvEntries ==
    {EnvEntry(Y_str(<<"A">>), Y_str(<<"1">>), Y_absent),
     EnvEntry(Y_str(<<"B">>), Y_str(<<"2">>), Y_map([keys |-> {"secretKeyRef"}])),
     EnvEntry(Y_str(<<"A">>), Y_absent, ConfigMapKeyRef("cm", "k")),
     EnvEntry(Y_str(<<"A">>), Y_absent, ConfigMapKeyRef("cm", "j")),
     EnvEntry(Y_str(<<"A">>), Y_absent, ConfigMapKeyRef("none", "k")),
     EnvEntry(Y_str(<<"B">>), Y_absent, Y_map([keys |-> {"secretKeyRef"}])),
     EnvEntry(Y_str(<<"C">>), Y_absent, Y_map([keys |-> {"fieldRef"}])),
     EnvEntry(Y_str(<<"D">>), Y_absent, Y_map([keys |-> {"resourceFieldRef"}])),
     EnvEntry(Y_str(<<"A">>), Y_absent, Y_map([keys |-> {"podRef"}])),
     EnvEntry(Y_str(<<"A">>), Y_absent, Y_str("x")),
     EnvEntry(Y_str(<<"A">>), Y_absent, Y_absent),
     EnvEntry(Y_str(<<"A">>), Y_bool(TRUE), Y_absent),
     EnvEntry(Y_absent, Y_str(<<"1">>), Y_absent)}

\* `cluster` is what kubectl get configmap answers during the call.
PodEnvCalls ==
    {[fn |-> "PodYaml::get_env",
      container |-> [NullContainer EXCEPT !.env = Y_seq(es)],
      cluster |-> "cm" :> ("k" :> <<"v">>)] :
        es \in SeqUpTo(SomeEnvEntries, MaxEnvEntries)}

InitFn ==
    /\ call \in RulesCalls \cup MountsCalls \cup PodMountsCalls \cup PodEnvCalls
    /\ ret = None
    /\ EnvIdle
    /\ NoCollaborators
    /\ BuilderIdle

\* cri::get_rules(is_sandbox, privileged, tty).
CallGetRules ==
    /\ call.fn = "get_rules"
    /\ ret = None
    /\ ret' = Some(cri_get_rules(call.is_sandbox, call.privileged, call.tty))
    /\ UNCHANGED <<call, evars, cvars, bvars>>

\* cri::merge_mounts(mounts, extras).
CallMergeMounts ==
    /\ call.fn = "merge_mounts"
    /\ ret = None
    /\ \E results \in merge_mounts(call.mounts, call.extras) : ret' = Some(results)
    /\ UNCHANGED <<call, evars, cvars, bvars>>

\* PodYaml::get_volmues on the manifest's volumes, then PodYaml::get_mounts on
\* a container of it.
CallPodGetMounts ==
    /\ call.fn = "PodYaml::get_mounts"
    /\ ret = None
    /\ LET volumes == get_volmues(call.volumes)
       IN  ret' = IF volumes.ok
                  THEN Some(pod_get_mounts(volumes.val, call.container))
                  ELSE Some(volumes)
    /\ UNCHANGED <<call, evars, cvars, bvars>>

\* PodYaml::get_env on a container of the manifest.
CallPodGetEnv ==
    /\ call.fn = "PodYaml::get_env"
    /\ ret = None
    /\ ret' = Some(pod_get_env(call.container, call.cluster))
    /\ UNCHANGED <<call, evars, cvars, bvars>>

NextFn ==
    \/ CallGetRules
    \/ CallMergeMounts
    \/ CallPodGetMounts
    \/ CallPodGetEnv

SpecFn == InitFn /\ [][NextFn]_vars

\* The stepwise run and the function agree.
EnvStepwiseAgrees ==
    /\ epc = "done" =>
          LET r == merge_process_env(call.defaults, call.overrides)
          IN  ~r.panic /\ r.defaults = defaults
    /\ epc = "panic" => merge_process_env(call.defaults, call.overrides).panic

(***************************************************************************)
(* The manifests, images and config maps the builder is run on             *)
(***************************************************************************)

MaxArgs == 1
MaxContainerEnv == 2
MaxImageEnv == 1
MaxPodMounts == 2
MaxImageVolumes == 1
MaxContainers == 1

\* A YAML sequence of strings.
YamlStrings(list) == Y_seq([k \in DOMAIN list |-> Y_str(list[k])])

\* The image of the end-to-end example (entrypoint /bin/sh, cmd -c "sleep 1"),
\* and a pause image.
BaseImage == ImageConfiguration(Some(<<"/bin/sh">>), Some(<<"-c", "sleep 1">>), None, None, None)
PauseImage ==
    ImageConfiguration(Some(<<"/pause">>), None, Some("/"),
                       Some(<<Rule(<<"PATH">>, <<"/usr/local/sbin:/usr/local/bin">>)>>), None)

\* What skopeo resolves: the container image "img" and the pause image.
Registry(img) == ("img" :> img) @@ (get_pause_image_ref :> PauseImage)

\* The one config map of the cluster.
Cluster == "cm" :> ("k" :> <<"v">>)

BaseContainer == [NullContainer EXCEPT !.name = Y_str("c"), !.image = Y_str("img")]

\* A manifest of the given kind; the pod spec sits under spec for a Pod and
\* under spec.template.spec for the other kinds.
Manifest(kind, spec) ==
    [kind |-> kind,
     spec |-> IF kind = Y_str("Pod") THEN spec ELSE NullSpec,
     template_spec |-> IF kind = Y_str("Pod") THEN NullSpec ELSE spec]

OnePod(container) == Manifest(Y_str("Pod"), PodSpec(Y_absent, Y_seq(<<container>>), Y_absent))

Scenario(yaml, with_default_rules, registry, cluster) ==
    [call |-> [fn |-> "get_policy_from_yaml", yaml |-> yaml,
               with_default_rules |-> with_default_rules],
     skopeo |-> registry, kubectl |-> cluster]

\* Entry points: every command and args of the container against every
\* entrypoint and cmd of the image.
ArgWords == {"", "a"}
ImageArgs == {None, Some(<<>>), Some(<<"">>), Some(<<"/bin/sh">>), Some(<<"-c", "sleep 1">>)}
ArgsScenarios ==
    {Scenario(OnePod([BaseContainer EXCEPT !.command = YamlStrings(cc),
                                           !.args = YamlStrings(ca)]),
              w, Registry(img), Cluster) :
        cc \in SeqUpTo(ArgWords, MaxArgs), ca \in SeqUpTo(ArgWords, MaxArgs),
        w \in BOOLEAN,
        img \in {NoConfig} \cup {ImageConfiguration(e, c, None, None, None) :
                                    e \in ImageArgs, c \in ImageArgs}}

\* Environments: variables the container declares, literally or by reference,
\* against variables of the image and of the runtime defaults.
EnvLiteral(name, value) ==
    [name |-> Y_str(<<name>>), value |-> Y_str(<<value>>), valueFrom |-> Y_absent]
EnvFrom(name, value_from) ==
    [name |-> Y_str(<<name>>), value |-> Y_absent, valueFrom |-> Y_map(value_from)]
ContainerEnvEntries ==
    {EnvLiteral("A", "2"), EnvLiteral("PATH", "/bin"),
     EnvFrom("A", [keys |-> {"secretKeyRef"}])}
ImageEnvEntries == {Rule(<<"A">>, <<"1">>), Rule(<<"PATH">>, <<"/bin">>), <<"A">>}
EnvScenarios ==
    {Scenario(OnePod([BaseContainer EXCEPT !.env = Y_seq(ce)]),
              w, Registry([BaseImage EXCEPT !.config[1].env = ie]), Cluster) :
        ce \in SeqUpTo(ContainerEnvEntries, MaxContainerEnv),
        ie \in {None} \cup {Some(l) : l \in SeqUpTo(ImageEnvEntries, MaxImageEnv)},
        w \in BOOLEAN}

\* Mounts: volume mounts of the pod against volumes of the image, at
\* destinations the orchestrator fragment and the runtime defaults also use.
HostVolume == [name |-> Y_str("v"), keys |-> {"hostPath"}, emptyDir |-> Y_absent,
               path |-> Y_str(<<"/host">>)]
SecretVolume == [name |-> Y_str("s"), keys |-> {"secret"}, emptyDir |-> Y_absent,
                 path |-> Y_absent]
PodVolumeMounts ==
    {VolumeMount(Y_str(<<"data">>), Y_str("v"), Y_absent, Y_absent),
     VolumeMount(Y_str(<<"data">>), Y_str("s"), Y_absent, Y_absent),
     VolumeMount(Y_str(<<"dev", "termination-log">>), Y_str("v"), Y_absent, Y_absent),
     VolumeMount(Y_str(<<"etc", "hosts">>), Y_str("v"), Y_absent, Y_absent)}
ImageVolumes ==
    {<<"data">>, <<"data", "">>, <<"etc", "hosts">>,
     <<"var", "run", "secrets", "kubernetes.io", "serviceaccount">>}
MountsScenarios ==
    {Scenario(Manifest(Y_str("Pod"),
                       PodSpec(Y_seq(<<HostVolume, SecretVolume>>),
                               Y_seq(<<[BaseContainer EXCEPT !.volumeMounts = Y_seq(vms)]>>),
                               Y_absent)),
              w, Registry([BaseImage EXCEPT !.config[1].volumes = iv]), Cluster) :
        vms \in SeqUpTo(PodVolumeMounts, MaxPodMounts),
        iv \in {None} \cup {Some(l) : l \in SeqUpTo(ImageVolumes, MaxImageVolumes)},
        w \in BOOLEAN}

\* One container each for the fields the families above leave alone, with the
\* values the accessors reject among them.
OtherContainers ==
    {[BaseContainer EXCEPT !.name = Y_absent],
     [BaseContainer EXCEPT !.image = Y_absent],
     [BaseContainer EXCEPT !.image = Y_str("unknown")],
     [BaseContainer EXCEPT !.privileged = Y_bool(TRUE)],
     [BaseContainer EXCEPT !.privileged = Y_str("yes")],
     [BaseContainer EXCEPT !.allowPrivilegeEscalation = Y_str("yes")],
     [BaseContainer EXCEPT !.tty = Y_bool(TRUE)],
     [BaseContainer EXCEPT !.tty = Y_bool(TRUE),
                           !.env = Y_seq(<<EnvLiteral("TERM", "vt100")>>)],
     [BaseContainer EXCEPT !.tty = Y_str("yes")],
     [BaseContainer EXCEPT !.workingDir = Y_str("/w")],
     [BaseContainer EXCEPT !.workingDir = Y_bool(TRUE)],
     [BaseContainer EXCEPT !.command = Y_str("a")],
     [BaseContainer EXCEPT !.args = Y_seq(<<Y_str("a"), Y_bool(TRUE)>>)],
     [BaseContainer EXCEPT !.env = Y_str("A=1")],
     [BaseContainer EXCEPT !.volumeMounts = Y_str("v")],
     [BaseContainer EXCEPT !.volumeMounts =
         Y_seq(<<VolumeMount(Y_str(<<"data">>), Y_str("w"), Y_absent, Y_absent)>>)]}
    \cup
    {[BaseContainer EXCEPT !.env = Y_seq(<<e>>)] :
        e \in {EnvFrom("A", [keys |-> {"configMapKeyRef"},
                             configMapKeyRef |-> [name |-> "cm", key |-> "k"]]),
               EnvFrom("A", [keys |-> {"configMapKeyRef"},
                             configMapKeyRef |-> [name |-> "cm", key |-> "j"]]),
               EnvFrom("A", [keys |-> {"configMapKeyRef"},
                             configMapKeyRef |-> [name |-> "none", key |-> "k"]]),
               EnvFrom("HOSTNAME", [keys |-> {"fieldRef"}]),
               EnvFrom("A", [keys |-> {"resourceFieldRef"}]),
               EnvFrom("A", [keys |-> {"podRef"}]),
               [name |-> Y_str(<<"A">>), value |-> Y_absent, valueFrom |-> Y_str("x")],
               [name |-> Y_str(<<"A">>), value |-> Y_absent, valueFrom |-> Y_absent],
               [name |-> Y_str(<<"A">>), value |-> Y_bool(TRUE), valueFrom |-> Y_absent],
               [name |-> Y_absent, value |-> Y_str(<<"1">>), valueFrom |-> Y_absent]}}

InitContainer == [BaseContainer EXCEPT !.name = Y_str("i")]

OtherManifests ==
    {OnePod(c) : c \in OtherContainers}
    \cup {Manifest(k, PodSpec(Y_absent, Y_seq(<<BaseContainer>>), Y_absent)) :
             k \in {Y_str("Job"), Y_str("Deployment"), Y_str("ReplicationController"),
                    Y_str("Service"), Y_absent, Y_bool(TRUE)}}
    \cup {Manifest(Y_str("Pod"), s) :
             s \in {NullSpec,
                    PodSpec(Y_absent, Y_str("c"), Y_absent),
                    PodSpec(Y_absent, Y_seq(<<>>), Y_absent),
                    PodSpec(Y_absent, Y_seq(<<BaseContainer>>), Y_seq(<<InitContainer>>)),
                    PodSpec(Y_absent, Y_absent, Y_seq(<<InitContainer>>)),
                    PodSpec(Y_absent, Y_seq(<<BaseContainer, InitContainer>>), Y_absent),
                    PodSpec(Y_seq(<<[HostVolume EXCEPT !.name = Y_absent]>>),
                            Y_seq(<<BaseContainer>>), Y_absent),
                    PodSpec(Y_str("v"), Y_seq(<<BaseContainer>>), Y_absent),
                    PodSpec(Y_seq(<<[HostVolume EXCEPT !.path = Y_bool(TRUE)]>>),
                            Y_seq(<<[BaseContainer EXCEPT !.volumeMounts =
                                        Y_seq(<<VolumeMount(Y_str(<<"data">>), Y_str("v"),
                                                            Y_absent, Y_absent)>>)]>>),
                            Y_absent)}}

\* Images the families above leave alone: a working directory, a volume
\* without a final component, no entry point at all; and a registry that
\* cannot resolve the pause image.
OtherScenarios ==
    {Scenario(y, w, Registry(BaseImage), Cluster) : y \in OtherManifests, w \in BOOLEAN}
    \cup {Scenario(OnePod(BaseContainer), w, Registry(img), Cluster) :
             w \in BOOLEAN,
             img \in {[BaseImage EXCEPT !.config[1].working_dir = Some("/app")],
                      [BaseImage EXCEPT !.config[1].volumes = Some(<< <<>> >>)],
                      [BaseImage EXCEPT !.config[1].volumes = Some(<< <<"data", "..">> >>)]}}
    \cup {Scenario(OnePod(BaseContainer), TRUE, "img" :> BaseImage, Cluster)}

\* Working directories: every workingDir of the container against every
\* working directory of the image.
CwdScenarios ==
    {Scenario(OnePod([BaseContainer EXCEPT !.workingDir = wd]),
              w, Registry([BaseImage EXCEPT !.config[1].working_dir = iwd]), Cluster) :
        wd \in {Y_absent, Y_str(""), Y_str("/w")},
        iwd \in {None, Some(""), Some("/app")},
        w \in BOOLEAN}

\* Names: containers and init containers that share a name with each other
\* or with the sandbox; the command tells the list an entry came from.
MainContainer(name) ==
    [BaseContainer EXCEPT !.name = Y_str(name), !.command = YamlStrings(<<"main">>)]
InitNamed(name) ==
    [BaseContainer EXCEPT !.name = Y_str(name), !.command = YamlStrings(<<"init">>)]
ContainerNames == {"c", KUBERNETES_PAUSE_NAME}
NameScenarios ==
    {Scenario(Manifest(Y_str("Pod"), PodSpec(Y_absent, Y_seq(cs), is)),
              w, Registry(BaseImage), Cluster) :
        cs \in SeqUpTo({MainContainer(n) : n \in ContainerNames}, MaxContainers),
        is \in {Y_absent} \cup
               {Y_seq(l) : l \in SeqUpTo({InitNamed(n) : n \in ContainerNames}, MaxContainers)},
        w \in BOOLEAN}

\* Kinds: every kind, supported or not, on a manifest that holds one pod spec
\* under spec and another under spec.template.spec.
Kinds ==
    {Y_str("Pod"), Y_str("Job"), Y_str("Deployment"), Y_str("ReplicationController"),
     Y_str("Service"), Y_str("pod"), Y_str(""), Y_absent, Y_bool(TRUE)}
KindScenarios ==
    {Scenario([kind |-> k,
               spec |-> PodSpec(Y_seq(<<HostVolume>>), Y_seq(<<MainContainer("s")>>),
                                Y_seq(<<InitNamed("si")>>)),
               template_spec |-> PodSpec(Y_seq(<<SecretVolume>>),
                                         Y_seq(<<MainContainer("t")>>),
                                         Y_seq(<<InitNamed("ti")>>))],
              w, Registry(BaseImage), Cluster) :
        k \in Kinds, w \in BOOLEAN}

Scenarios ==
    ArgsScenarios \cup EnvScenarios \cup MountsScenarios \cup CwdScenarios \cup NameScenarios
    \cup KindScenarios \cup OtherScenarios

(***************************************************************************)
(* main.rs get_policy_from_yaml: PodYaml::from, then CcPolicy::from_pod_yaml *)
(***************************************************************************)

Init ==
    /\ \E s \in Scenarios :
          /\ call = s.call
          /\ skopeo = s.skopeo
          /\ kubectl = s.kubectl
    /\ ret = None
    /\ EnvIdle
    /\ pod = None
    /\ cc_policy = CcPolicy_new
    /\ stage = "from"
    /\ idx = 1
    /\ pc = "idle"
    /\ cur = NullContainer
    /\ oci_spec = empty_spec
    /\ kube = empty_spec
    /\ image = NoConfig

\* The list from_pod_yaml is passing to get_container_policy (policy.rs lines
\* 79 and 83), an Option.
List ==
    IF stage = "containers" THEN pod[1].containers
    ELSE IF stage = "init_containers" THEN pod[1].init_containers
    ELSE None

\* What follows a list: the init containers after the containers, the return
\* after the init containers.
next_stage == IF stage = "containers" THEN "init_containers" ELSE "return"

\* get_container_policy is past its loop and building the sandbox entry.
IsSandbox == List # None /\ idx = Len(List[1]) + 1

\* A plausible slip: an error ends the loops and what was built so far is
\* returned.
Fail_returns_partial(err) ==
    /\ stage' = IF pod = None THEN "error" ELSE "return"
    /\ ret' = IF pod = None THEN Some(err) ELSE ret

\* A `?` that propagates an error out of get_policy_from_yaml.
Fail(err) ==
    /\ stage' = "error"
    /\ ret' = Some(err)

\* An abort of the process (an unwrap on None).
Abort ==
    /\ stage' = "panic"
    /\ ret' = ret

\* main.rs line 45 and policy.rs line 77.
PodYamlFrom ==
    /\ stage = "from"
    /\ LET pod_yaml == pod_yaml_from(call.yaml)
       IN  IF pod_yaml.ok
           THEN /\ pod' = Some(pod_yaml.val)
                /\ stage' = "containers"
                /\ ret' = ret
           ELSE /\ Fail(pod_yaml)
                /\ pod' = pod
    /\ cc_policy' = CcPolicy_new
    /\ UNCHANGED <<call, evars, cvars, idx, pc, cur, oci_spec, kube, image>>

\* policy.rs lines 79 and 83: the manifest has no such list.
ListAbsent ==
    /\ stage \in {"containers", "init_containers"}
    /\ List = None
    /\ stage' = next_stage
    /\ UNCHANGED <<call, ret, evars, cvars, pod, cc_policy, idx, pc, cur, oci_spec, kube, image>>

\* A plausible slip: the runtime defaults are taken whether or not they were
\* requested.
FromContainerYaml_always_defaults ==
    /\ stage \in {"containers", "init_containers"}
    /\ pc = "idle"
    /\ List # None
    /\ idx <= Len(List[1])
    /\ LET container == List[1][idx]
           name == get_name(container)
           security_context == get_security_context(container)
           debugging == get_debugging(container)
           image_config == pull_image_config(container.image.str, skopeo)
           failure ==
               IF ~name.ok THEN Some(name)
               ELSE IF ~security_context.ok THEN Some(security_context)
               ELSE IF ~debugging.ok THEN Some(debugging)
               ELSE IF container.image.tag # "str"
               THEN Some(Err("failed to parse image into string"))
               ELSE IF ~image_config.ok THEN Some(image_config)
               ELSE None
       IN  IF failure # None
           THEN /\ Fail(failure[1])
                /\ UNCHANGED <<pc, oci_spec, kube, image>>
           ELSE /\ oci_spec' = cri_get_rules(FALSE, security_context.val.privileged,
                                             debugging.val.tty)
                /\ kube' = kubernetes_get_rules(FALSE)
                /\ image' = image_config.val
                /\ pc' = "get_process"
                /\ UNCHANGED <<stage, ret>>
    /\ cur' = List[1][idx]
    /\ UNCHANGED <<call, evars, cvars, pod, cc_policy, idx>>

\* policy.rs lines 58-61 and 129-141: the next container of the list, up to
\* the image configuration.
FromContainerYaml ==
    /\ stage \in {"containers", "init_containers"}
    /\ pc = "idle"
    /\ List # None
    /\ idx <= Len(List[1])
    /\ LET container == List[1][idx]
           name == get_name(container)
           security_context == get_security_context(container)
           debugging == get_debugging(container)
           image_config == pull_image_config(container.image.str, skopeo)
           failure ==
               IF ~name.ok THEN Some(name)
               ELSE IF ~security_context.ok THEN Some(security_context)
               ELSE IF ~debugging.ok THEN Some(debugging)
               ELSE IF container.image.tag # "str"
               THEN Some(Err("failed to parse image into string"))
               ELSE IF ~image_config.ok THEN Some(image_config)
               ELSE None
       IN  IF failure # None
           THEN /\ Fail(failure[1])
                /\ UNCHANGED <<pc, oci_spec, kube, image>>
           ELSE /\ oci_spec' = IF call.with_default_rules
                               THEN cri_get_rules(FALSE, security_context.val.privileged,
                                                  debugging.val.tty)
                               ELSE empty_spec
                /\ kube' = kubernetes_get_rules(FALSE)
                /\ image' = image_config.val
                /\ pc' = "get_process"
                /\ UNCHANGED <<stage, ret>>
    /\ cur' = List[1][idx]
    /\ UNCHANGED <<call, evars, cvars, pod, cc_policy, idx>>

\* A plausible slip: the sandbox takes the flags of the container built
\* before it.
CreateSandboxPolicy_last_flags ==
    /\ pc = "idle"
    /\ IsSandbox
    /\ call.with_default_rules
    /\ LET image_config == pull_image_config(get_pause_image_ref, skopeo)
       IN  IF image_config.ok
           THEN /\ image' = image_config.val
                /\ pc' = "get_process"
                /\ UNCHANGED <<stage, ret>>
           ELSE /\ Fail(image_config)
                /\ UNCHANGED <<pc, image>>
    /\ oci_spec' = cri_get_rules(TRUE, get_security_context(cur).val.privileged,
                                 get_debugging(cur).val.tty)
    /\ cur' = NullContainer
    /\ kube' = empty_spec
    /\ UNCHANGED <<call, evars, cvars, pod, cc_policy, idx>>

\* policy.rs lines 66-67 and 184-193: the sandbox entry, up to the image
\* configuration.
CreateSandboxPolicy ==
    /\ pc = "idle"
    /\ IsSandbox
    /\ call.with_default_rules
    /\ LET image_config == pull_image_config(get_pause_image_ref, skopeo)
       IN  IF image_config.ok
           THEN /\ image' = image_config.val
                /\ pc' = "get_process"
                /\ UNCHANGED <<stage, ret>>
           ELSE /\ Fail(image_config)
                /\ UNCHANGED <<pc, image>>
    /\ oci_spec' = cri_get_rules(TRUE, FALSE, FALSE)
    /\ cur' = NullContainer
    /\ kube' = empty_spec
    /\ UNCHANGED <<call, evars, cvars, pod, cc_policy, idx>>

\* policy.rs lines 144 and 195: Self::get_process(&mut oci_spec, ..).
GetProcess ==
    /\ pc = "get_process"
    /\ LET r == get_process(oci_spec, cur, image, kube, kubectl)
       IN  IF r.panic
           THEN /\ Abort
                /\ UNCHANGED <<pc, oci_spec>>
           ELSE IF ~r.res.ok
           THEN /\ Fail(r.res)
                /\ UNCHANGED <<pc, oci_spec>>
           ELSE /\ oci_spec' = r.res.val
                /\ pc' = "get_mounts"
                /\ UNCHANGED <<stage, ret>>
    /\ UNCHANGED <<call, evars, cvars, pod, cc_policy, idx, cur, kube, image>>

\* policy.rs lines 146-152 and 197: Self::get_mounts(&mut oci_spec, ..), with
\* the manifest for a container and None for the sandbox.
GetMounts ==
    /\ pc = "get_mounts"
    /\ \E r \in get_mounts(oci_spec, IF IsSandbox THEN None ELSE pod, cur, image, kube) :
          IF r.panic
          THEN /\ Abort
               /\ UNCHANGED <<pc, oci_spec>>
          ELSE IF ~r.res.ok
          THEN /\ Fail(r.res)
               /\ UNCHANGED <<pc, oci_spec>>
          ELSE /\ oci_spec' = r.res.val
               /\ pc' = "insert"
               /\ UNCHANGED <<stage, ret>>
    /\ UNCHANGED <<call, evars, cvars, pod, cc_policy, idx, cur, kube, image>>

\* A plausible slip: a name that already has a policy keeps it.
Insert_keeps_earlier ==
    /\ pc = "insert"
    /\ LET name == IF IsSandbox THEN KUBERNETES_PAUSE_NAME ELSE get_name(cur).val
       IN  cc_policy' =
              [cc_policy EXCEPT !.containers =
                  [n \in DOMAIN cc_policy.containers \cup {name} |->
                      IF n \in DOMAIN cc_policy.containers
                      THEN cc_policy.containers[n]
                      ELSE ContainerPolicy(oci_spec)]]
    /\ IF IsSandbox
       THEN /\ stage' = next_stage
            /\ idx' = 1
       ELSE /\ idx' = idx + 1
            /\ stage' = stage
    /\ pc' = "idle"
    /\ UNCHANGED <<call, ret, evars, cvars, pod, cur, oci_spec, kube, image>>

\* policy.rs lines 154-156 and 63, or 199-201 and 69-73: the finished policy
\* is stored under the container's name, the sandbox's under "pause"; the
\* sandbox is the last entry of a list.
Insert ==
    /\ pc = "insert"
    /\ LET name == IF IsSandbox THEN KUBERNETES_PAUSE_NAME ELSE get_name(cur).val
       IN  cc_policy' =
              [cc_policy EXCEPT !.containers =
                  [n \in DOMAIN cc_policy.containers \cup {name} |->
                      IF n = name THEN ContainerPolicy(oci_spec)
                      ELSE cc_policy.containers[n]]]
    /\ IF IsSandbox
       THEN /\ stage' = next_stage
            /\ idx' = 1
       ELSE /\ idx' = idx + 1
            /\ stage' = stage
    /\ pc' = "idle"
    /\ UNCHANGED <<call, ret, evars, cvars, pod, cur, oci_spec, kube, image>>

\* policy.rs lines 66 and 73: no sandbox entry without the default rules.
ListEnd ==
    /\ pc = "idle"
    /\ IsSandbox
    /\ ~call.with_default_rules
    /\ stage' = next_stage
    /\ idx' = 1
    /\ UNCHANGED <<call, ret, evars, cvars, pod, cc_policy, pc, cur, oci_spec, kube, image>>

\* policy.rs line 87 and main.rs lines 49-53.
Return ==
    /\ stage = "return"
    /\ stage' = "done"
    /\ ret' = Some(Ok([kind |-> pod[1].kind, policy |-> cc_policy]))
    /\ UNCHANGED <<call, evars, cvars, pod, cc_policy, idx, pc, cur, oci_spec, kube, image>>

Next ==
    \/ PodYamlFrom
    \/ ListAbsent
    \/ FromContainerYaml
    \/ CreateSandboxPolicy
    \/ GetProcess
    \/ GetMounts
    \/ Insert
    \/ ListEnd
    \/ Return

Spec == Init /\ [][Next]_vars

(***************************************************************************)
(* Vocabulary of the merge_process_env claims                              *)
(***************************************************************************)

Max(S) == CHOOSE x \in S : \A y \in S : y <= x

\* The positions of ds that carry a rule for name n.
PositionsOf(ds, n) == {k \in DOMAIN ds : find_eq(ds[k]) # 0 /\ env_name(ds[k]) = n}

\* The positions of a batch that give a value (NAME=VALUE), and the names it
\* asks to remove (bare NAME).
Valued(ovs) == {k \in DOMAIN ovs : find_eq(ovs[k]) # 0}
RemovalNames(ovs) == {ovs[k] : k \in DOMAIN ovs \ Valued(ovs)}

\* The rules of ds for name n, in order.
RulesFor(ds, n) == SelectSeq(ds, LAMBDA e : find_eq(e) # 0 /\ env_name(e) = n)

\* C5 as the spec words it: a name the batch gives a value appears exactly once
\* in the result, at a position defaults gave it if it pre-existed there, and
\* after the defaults entries otherwise.
C5_ExactlyOnce ==
    epc = "done" =>
        \A k \in Valued(call.overrides) :
            LET n == env_name(call.overrides[k])
                P == PositionsOf(defaults, n)
            IN  /\ Cardinality(P) = 1
                /\ \A p \in P :
                      IF PositionsOf(call.defaults, n) # {}
                      THEN p \in PositionsOf(call.defaults, n)
                      ELSE p > Len(call.defaults)

\* The loop over overrides has ended and no removal has been applied yet:
\* defaults is the list as the substitutions and appends leave it, which is
\* the result when the batch holds no removal entry.
OverridesApplied ==
    /\ epc = "removes"
    /\ Len(removes) = Cardinality(DOMAIN call.overrides \ Valued(call.overrides))

\* C5, amended: in the list as the substitutions and appends leave it, a name
\* the batch gives a value (a) if it pre-existed in defaults, occupies exactly
\* the positions it had there, the last of them holding the batch's last rule
\* for it and the others their old rule; (b) otherwise is appended after the
\* defaults entries once per valued occurrence in the batch, in batch order.
\* So it appears exactly once when defaults held it once, or when it is new
\* and the batch gives it a value once.
C5_OncePerIndexedName ==
    OverridesApplied =>
        \A k \in Valued(call.overrides) :
            LET n == env_name(call.overrides[k])
                P0 == PositionsOf(call.defaults, n)
                K == {j \in Valued(call.overrides) : env_name(call.overrides[j]) = n}
            IN  IF P0 # {}
                THEN /\ PositionsOf(defaults, n) = P0
                     /\ defaults[Max(P0)] = call.overrides[Max(K)]
                     /\ \A p \in P0 \ {Max(P0)} : defaults[p] = call.defaults[p]
                ELSE /\ \A p \in PositionsOf(defaults, n) : p > Len(call.defaults)
                     /\ RulesFor(defaults, n) = RulesFor(call.overrides, n)

\* C5 witness: the substitutions and appends of a batch have replaced B in
\* place, at the second of its two positions, and appended D twice.
C5_Witness ==
    /\ OverridesApplied
    /\ call.defaults = <<B2, B2, A1>>
    /\ call.overrides = <<D1, B3, D1>>
    /\ defaults = <<B2, B3, A1, D1, D1>>

\* C6: an override NAME=VALUE whose name is indexed rewrites the entry at the
\* indexed position and nothing else: the length is unchanged by that override
\* and every other position keeps its entry; and merge_env(["A=1","B=2"],
\* ["B=3","C"]) gives ["A=1","B=3"].
C6_ReplaceInPlace ==
    /\ []((/\ epc = "done"
           /\ call.defaults = <<A1, B2>>
           /\ call.overrides = <<B3, <<"C">>>>) => defaults = <<A1, B3>>)
    /\ [][(/\ epc = "overrides"
           /\ i <= Len(call.overrides)
           /\ find_eq(call.overrides[i]) # 0
           /\ PositionsOf(call.defaults, env_name(call.overrides[i])) # {})
          => LET env == call.overrides[i]
                 at == Max(PositionsOf(call.defaults, env_name(env)))
             IN  /\ Len(defaults') = Len(defaults)
                 /\ defaults'[at] = env
                 /\ \A j \in DOMAIN defaults : j # at => defaults'[j] = defaults[j]]_vars

\* C6 witness: the spec's example has run to its end.
C6_Witness ==
    /\ epc = "done"
    /\ call.defaults = <<A1, B2>>
    /\ call.overrides = <<B3, <<"C">>>>
    /\ defaults = <<A1, B3>>

\* C7: after merge_env no entry remains whose name the batch asked to remove
\* and that was in the original defaults, and no entry with another name is
\* deleted.
C7_RemovalsExact ==
    epc = "done" =>
        /\ \A n \in RemovalNames(call.overrides) :
              PositionsOf(call.defaults, n) # {} => PositionsOf(defaults, n) = {}
        /\ \A k \in DOMAIN call.defaults :
              LET n == env_name(call.defaults[k])
              IN  n \notin RemovalNames(call.overrides) =>
                     Cardinality(PositionsOf(defaults, n))
                        >= Cardinality(PositionsOf(call.defaults, n))

(***************************************************************************)
(* Claims about merge_mounts, get_rules and PodYaml::get_mounts            *)
(***************************************************************************)

Destinations(list) == {list[k].destination : k \in DOMAIN list}

\* The last mount of a list for a destination the list holds.
LastWith(list, d) == list[Max({k \in DOMAIN list : list[k].destination = d})]

\* The mounts of a list with destination d.
MountsAt(list, d) == {k \in DOMAIN list : list[k].destination = d}

\* C8: in merge_mounts(mounts, extras), a destination that mounts holds has
\* exactly one mount in the result, and it is the mount of mounts with its
\* source, type and options, whatever extras holds for that destination; a
\* destination only extras holds keeps the mount of extras.
C8_MountsBeatExtras ==
    (call.fn = "merge_mounts" /\ ret # None) =>
        LET results == ret[1]
        IN  /\ Destinations(results) = Destinations(call.mounts) \cup Destinations(call.extras)
            /\ \A d \in Destinations(results) :
                  /\ Cardinality(MountsAt(results, d)) = 1
                  /\ LastWith(results, d) =
                        IF d \in Destinations(call.mounts)
                        THEN LastWith(call.mounts, d)
                        ELSE LastWith(call.extras, d)

\* C8 witness: the spec's example, mounts and extras colliding on one
\* destination with every other field different.
C8_Witness ==
    /\ call.fn = "merge_mounts"
    /\ call.mounts = <<Mount(<<"x">>, <<"/v2">>, "local", <<"rw">>)>>
    /\ call.extras = <<Mount(<<"x">>, <<"/v1">>, "bind", <<"rbind", "ro">>)>>
    /\ ret = Some(<<Mount(<<"x">>, <<"/v2">>, "local", <<"rw">>)>>)

\* C9: the runtime-default fragment built with privileged true is the one
\* built with privileged false (same is_sandbox and tty), except that in
\* every mount of type sysfs or cgroup each option "ro" is "rw" at the same
\* position.
C9_PrivilegedFlipsOnlyRo ==
    (call.fn = "get_rules" /\ ret # None /\ call.privileged) =>
        LET got == ret[1]
            base == cri_get_rules(call.is_sandbox, FALSE, call.tty)
            ms == got.mounts[1]
            bs == base.mounts[1]
        IN  /\ got.version = base.version
            /\ got.process = base.process
            /\ Len(ms) = Len(bs)
            /\ \A k \in DOMAIN bs :
                  IF bs[k].typ \in {"sysfs", "cgroup"}
                  THEN /\ ms[k].destination = bs[k].destination
                       /\ ms[k].source = bs[k].source
                       /\ ms[k].typ = bs[k].typ
                       /\ Len(ms[k].options) = Len(bs[k].options)
                       /\ \A j \in DOMAIN bs[k].options :
                             ms[k].options[j] =
                                IF bs[k].options[j] = "ro" THEN "rw" ELSE bs[k].options[j]
                  ELSE ms[k] = bs[k]

\* C9 witness: a privileged regular container, whose /sys and /sys/fs/cgroup
\* mounts end in "rw" while /etc/hosts is as without privilege.
C9_Witness ==
    /\ call.fn = "get_rules"
    /\ call.privileged /\ ~call.is_sandbox
    /\ ret # None
    /\ LET ms == ret[1].mounts[1]
       IN  /\ LastWith(ms, <<"sys">>).options = <<"nosuid", "noexec", "nodev", "rw">>
           /\ LastWith(ms, <<"sys", "fs", "cgroup">>).options
                 = <<"nosuid", "noexec", "nodev", "relatime", "rw">>
           /\ LastWith(DEFAULT_MOUNTS, <<"sys">>).options[4] = "ro"
           /\ LastWith(ms, <<"etc", "hosts">>).options = <<"rbind", "rprivate", "rw">>

\* The declaration that decides volume n: the last one of that name.
DeclOf(decls, n) == decls[Max({k \in DOMAIN decls : decls[k].name.str = n})]

\* A declaration the chain reads as Secret, ConfigMap, DownwardAPI or Projected.
ReadOnlyKind(decl) ==
    /\ "emptyDir" \notin decl.keys
    /\ decl.keys \cap {"secret", "configMap", "downwardAPI", "projected"} # {}

\* C10: every resolved volume mount carries exactly one of "ro" and "rw", and
\* it is "ro" exactly when the volume is of a read-only kind or the mount
\* declares readOnly: true.
C10_ReadOnlyIsOr ==
    (call.fn = "PodYaml::get_mounts" /\ ret # None /\ ret[1].ok) =>
        LET results == ret[1].val
            reqs == call.container.volumeMounts.seq
        IN  /\ Len(results) = Len(reqs)
            /\ \A k \in DOMAIN results :
                  LET options == results[k].options
                      decl == DeclOf(call.volumes.seq, reqs[k].name.str)
                      declared == reqs[k].readOnly.tag = "bool" /\ reqs[k].readOnly.bool
                  IN  /\ Cardinality({j \in DOMAIN options : options[j] \in {"ro", "rw"}}) = 1
                      /\ "ro" \in Range(options) <=> (ReadOnlyKind(decl) \/ declared)

\* C10 witness: a secret volume mounted with readOnly: false comes out "ro".
C10_Witness ==
    /\ call.fn = "PodYaml::get_mounts"
    /\ ret # None /\ ret[1].ok
    /\ Len(ret[1].val) = 1
    /\ call.volumes.seq = <<VolumeDecl({"secret"}, Y_absent, Y_absent)>>
    /\ call.container.volumeMounts.seq[1].readOnly = Y_bool(FALSE)
    /\ ret[1].val[1].options = <<"rbind", "rprivate", "ro">>

(***************************************************************************)
(* Claims about the container policy builder                               *)
(***************************************************************************)

\* The variable a rule is about: the text before '=', without the '^' the
\* fragments, the image rules and the referenced values are anchored with.
VarName(rule) ==
    LET n == env_name(rule)
    IN  IF n # <<>> /\ n[1] = "^" THEN Tail(n) ELSE n

\* The variables a source supplies a NAME=VALUE rule for.
Supplied(source) == {VarName(source[k]) : k \in {j \in DOMAIN source : find_eq(source[j]) # 0}}

\* The four environment sources of the container being built, lowest
\* precedence first: runtime defaults, orchestrator, image, container.
EnvSources ==
    << spec_env(IF call.with_default_rules
                THEN cri_get_rules(FALSE, get_security_context(cur).val.privileged,
                                   get_debugging(cur).val.tty)
                ELSE empty_spec),
       spec_env(kube),
       image_get_env(image),
       pod_get_env(cur, kubectl).val >>

\* The env list of the spec being filled in.
FinalEnv == oci_spec.process[1].env[1]

\* GetProcess has filled in the process of a container of the manifest.
ContainerProcessBuilt == pc \in {"get_mounts", "insert"} /\ ~IsSandbox

\* C1: once the builder has merged the environment of a container, every
\* variable that more than one of the four sources supplies has exactly one
\* rule in the final env list, and that rule is one the highest-precedence
\* supplying source gave (runtime defaults < orchestrator < image < container).
C1_FourStagePrecedence ==
    ContainerProcessBuilt =>
        \A n \in UNION {Supplied(EnvSources[l]) : l \in 1..4} :
            LET suppliers == {l \in 1..4 : n \in Supplied(EnvSources[l])}
                top == EnvSources[Max(suppliers)]
                held == {k \in DOMAIN FinalEnv : VarName(FinalEnv[k]) = n}
            IN  Cardinality(suppliers) > 1 =>
                    /\ Cardinality(held) = 1
                    /\ \A k \in held : \E j \in DOMAIN top : FinalEnv[k] = top[j]

\* The four mount layers GetMounts reads, lowest precedence first: runtime
\* defaults (the mounts of the spec before the step), image volumes,
\* orchestrator, pod.
MountLayers ==
    << or_empty(oci_spec.mounts),
       get_image_volume_mounts(image).mounts,
       or_empty(kube.mounts),
       IF IsSandbox THEN <<>> ELSE pod_get_mounts(pod[1].volumes, cur).val >>

\* C2: when GetMounts leaves a mount list, every destination some layer
\* declares has exactly one mount in the list, and it is the mount (the last
\* one for that destination) of the highest-precedence layer declaring it
\* (pod > orchestrator > image volumes > runtime defaults).
C2_FourLayerPrecedence ==
    [][(pc = "get_mounts" /\ pc' = "insert") =>
          LET final == oci_spec'.mounts[1]
          IN  \A d \in UNION {Destinations(MountLayers[l]) : l \in 1..4} :
                  LET top == MountLayers[Max({l \in 1..4 : d \in Destinations(MountLayers[l])})]
                      held == {k \in DOMAIN final : final[k].destination = d}
                  IN  /\ Cardinality(held) = 1
                      /\ \A k \in held : final[k] = LastWith(top, d)]_vars

\* A destination all of the pod, the image and the runtime defaults declare
\* ended with the pod's mount.
C2_Witness ==
    /\ pc = "insert"
    /\ ~IsSandbox
    /\ call.with_default_rules
    /\ \E k \in DOMAIN oci_spec.mounts[1] :
          LET m == oci_spec.mounts[1][k]
          IN  /\ m.destination = <<"etc", "hosts">>
              /\ m.source = <<"/host">>
              /\ m.destination \in Destinations(get_image_volume_mounts(image).mounts)
              /\ m.destination \in Destinations(cri_get_rules(FALSE, FALSE, FALSE).mounts[1])

\* The command and args of the container being built, as the accessor reads
\* them, and the entrypoint and cmd of its image.
ContainerCommand == strings_of(cur.command)
ContainerArgs == strings_of(cur.args)
ImageEntrypoint == IF image.config = None THEN <<>> ELSE or_empty(image.config[1].entrypoint)
ImageCmd == IF image.config = None THEN <<>> ELSE or_empty(image.config[1].cmd)

\* The command and the args the merge is to arrive at.
EffectiveCommand ==
    IF ContainerCommand # <<>> THEN ContainerCommand
    ELSE IF ImageEntrypoint = <<"">> THEN <<>>
    ELSE ImageEntrypoint
EffectiveArgs ==
    IF ContainerCommand # <<>> THEN ContainerArgs
    ELSE IF ContainerArgs # <<>> THEN ContainerArgs
    ELSE ImageCmd

\* C3: once GetProcess has filled in the process, its args are command ++ args
\* where a non-empty container command gives command = container command and
\* args = container args, and an empty one gives command = image entrypoint
\* (empty for the entrypoint [""]) and args = container args if any, else the
\* image cmd; no command and no args with entrypoint ["/bin/sh"] and cmd
\* ["-c", "sleep 1"] give ["/bin/sh", "-c", "sleep 1"].
C3_MergedArgsStored ==
    pc \in {"get_mounts", "insert"} =>
        /\ oci_spec.process[1].args = Some(EffectiveCommand \o EffectiveArgs)
        /\ (/\ ContainerCommand = <<>>
            /\ ContainerArgs = <<>>
            /\ ImageEntrypoint = <<"/bin/sh">>
            /\ ImageCmd = <<"-c", "sleep 1">>)
           => oci_spec.process[1].args = Some(<<"/bin/sh", "-c", "sleep 1">>)

\* The container of the end-to-end example has its policy ready to store.
C3_Witness ==
    /\ pc = "insert"
    /\ ~IsSandbox
    /\ cur.command = Y_absent
    /\ cur.args = Y_absent
    /\ image = BaseImage
    /\ oci_spec.process[1].args = Some(<<"/bin/sh", "-c", "sleep 1">>)

\* C4: the step that merges the entry point fails with "no command specified"
\* exactly when the resulting command and args are both empty, and then stores
\* no policy and ends the build with that error; in every other case a
\* process it leaves has a non-empty args vector.
C4_NoCommandSpecified ==
    [][(pc = "get_process" /\ get_entry_point(cur).ok) =>
          LET empty == EffectiveCommand = <<>> /\ EffectiveArgs = <<>>
              failed == stage' = "error" /\ ret' = Some(Err("no command specified"))
          IN  /\ empty <=> failed
              /\ failed => cc_policy' = cc_policy /\ pc' = "get_process"
              /\ pc' = "get_mounts" =>
                    /\ oci_spec'.process[1].args # None
                    /\ oci_spec'.process[1].args[1] # <<>>]_vars

\* A build ended with "no command specified" for a container with no command
\* and no args whose image has the entrypoint [""] and no cmd, and the policy
\* holds no container.
C4_Witness ==
    /\ stage = "error"
    /\ ret = Some(Err("no command specified"))
    /\ cur.name = Y_str("c")
    /\ ContainerCommand = <<>>
    /\ ContainerArgs = <<>>
    /\ ImageEntrypoint = <<"">>
    /\ ImageCmd = <<>>
    /\ cc_policy.containers = <<>>

\* The working directory the container declares and the one its image
\* declares, "" when there is none.
ContainerWorkingDir == IF cur.workingDir.tag = "str" THEN cur.workingDir.str ELSE ""
ImageWorkingDir ==
    IF image.config # None /\ image.config[1].working_dir # None
    THEN image.config[1].working_dir[1]
    ELSE ""

\* The cwd of the spec GetProcess starts from.
StartingCwd == IF oci_spec.process # None THEN oci_spec.process[1].cwd ELSE ""

\* C11: a GetProcess step leaves as cwd the container's working directory if
\* non-empty, else the image's if non-empty, else the cwd the spec started
\* with, which is "/" with the runtime defaults and "" without them.
C11_CwdPrecedence ==
    [][(pc = "get_process" /\ pc' = "get_mounts") =>
          /\ StartingCwd = (IF call.with_default_rules THEN "/" ELSE "")
          /\ oci_spec'.process[1].cwd =
                 (IF ContainerWorkingDir # "" THEN ContainerWorkingDir
                  ELSE IF ImageWorkingDir # "" THEN ImageWorkingDir
                  ELSE StartingCwd)]_vars

\* A container that declares the empty working directory got its image's,
\* over the "/" of the runtime defaults.
C11_Witness ==
    /\ pc = "insert"
    /\ call.with_default_rules
    /\ cur.workingDir = Y_str("")
    /\ ImageWorkingDir = "/app"
    /\ oci_spec.process[1].cwd = "/app"

\* The names of the containers and init containers of the normalized
\* manifest.
ManifestNames ==
    {c.name.str : c \in Range(or_empty(pod[1].containers))
                         \cup Range(or_empty(pod[1].init_containers))}

\* The policy create_sandbox_policy builds: the sandbox fragment of the
\* runtime defaults, filled in from the pause image alone.
IsSandboxPolicy(policy) ==
    /\ Destinations(policy.oci_spec.mounts[1])
          = Destinations(cri_get_rules(TRUE, FALSE, FALSE).mounts[1])
    /\ policy.oci_spec.process[1].args
          = Some(merge_process_args(<<>>, <<>>, skopeo[get_pause_image_ref]).val)

\* C12: a document assembled with the runtime defaults holds under "pause" a
\* sandbox policy, whatever the lists of the manifest; one assembled without
\* them holds no entry but those of the manifest's containers.
C12_OneSandboxEntry ==
    stage = "done" =>
        IF call.with_default_rules
        THEN /\ KUBERNETES_PAUSE_NAME \in DOMAIN cc_policy.containers
             /\ IsSandboxPolicy(cc_policy.containers[KUBERNETES_PAUSE_NAME])
        ELSE DOMAIN cc_policy.containers \subseteq ManifestNames

\* The args of the policy a name maps to.
ArgsOf(name) == cc_policy.containers[name].oci_spec.process[1].args[1]

\* The names of a list of containers.
NamesIn(list) == {c.name.str : c \in Range(or_empty(list))}

\* The last container of a list with a name, and the args its policy is to
\* carry.
LastNamed(list, name) == list[Max({k \in DOMAIN list : list[k].name.str = name})]
ArgsFor(container) ==
    merge_process_args(strings_of(container.command), strings_of(container.args),
                       skopeo[container.image.str]).val

\* C13: the lists are taken containers first, init containers second, and
\* with the runtime defaults the last policy stored is the sandbox's; in the
\* returned document every name of the manifest has a policy, which is the
\* sandbox's for "pause" when there is a sandbox, else the init container's
\* when an init container has the name (the last such), else the container's.
C13_LaterInsertionWins ==
    /\ [](stage = "done" =>
            /\ ManifestNames \subseteq DOMAIN cc_policy.containers
            /\ \A n \in ManifestNames :
                  IF call.with_default_rules /\ n = KUBERNETES_PAUSE_NAME
                  THEN IsSandboxPolicy(cc_policy.containers[n])
                  ELSE IF n \in NamesIn(pod[1].init_containers)
                  THEN ArgsOf(n) = ArgsFor(LastNamed(pod[1].init_containers[1], n))
                  ELSE ArgsOf(n) = ArgsFor(LastNamed(pod[1].containers[1], n)))
    /\ [][/\ stage = "init_containers" => stage' # "containers"
          /\ (call.with_default_rules /\ List # None /\ stage' = "return")
                => (pc = "insert" /\ IsSandbox)]_vars

\* With the runtime defaults, a container and an init container both named
\* "pause" ended with the sandbox's policy under that name.
C13_Witness ==
    /\ stage = "done"
    /\ call.with_default_rules
    /\ KUBERNETES_PAUSE_NAME \in NamesIn(pod[1].containers)
    /\ KUBERNETES_PAUSE_NAME \in NamesIn(pod[1].init_containers)
    /\ IsSandboxPolicy(cc_policy.containers[KUBERNETES_PAUSE_NAME])

\* The step the builder is about to take meets an error: the manifest is of
\* no supported kind, a field of the container is malformed, a collaborator
\* fails, or the merged command is empty.
StepFails ==
    \/ stage = "from" /\ ~pod_yaml_from(call.yaml).ok
    \/ /\ stage \in {"containers", "init_containers"} /\ pc = "idle" /\ List # None
       /\ IF IsSandbox
          THEN call.with_default_rules /\ ~pull_image_config(get_pause_image_ref, skopeo).ok
          ELSE LET c == List[1][idx]
               IN  \/ ~get_name(c).ok
                   \/ ~get_security_context(c).ok
                   \/ ~get_debugging(c).ok
                   \/ c.image.tag # "str"
                   \/ ~pull_image_config(c.image.str, skopeo).ok
    \/ /\ pc = "get_process"
       /\ LET r == get_process(oci_spec, cur, image, kube, kubectl)
          IN  ~r.panic /\ ~r.res.ok
    \/ /\ pc = "get_mounts"
       /\ \E r \in get_mounts(oci_spec, IF IsSandbox THEN None ELSE pod, cur, image, kube) :
             ~r.panic /\ ~r.res.ok

\* A policy whose three merges are complete: args and env are filled in by
\* GetProcess, the mounts by GetMounts.
FullyMerged(policy) ==
    /\ policy.oci_spec.process # None
    /\ policy.oci_spec.process[1].args # None
    /\ policy.oci_spec.process[1].env # None
    /\ policy.oci_spec.mounts # None

\* C14: there is no partial success.  A step that meets an error ends the
\* call with that error and no document, and nothing runs after an error or
\* an abort (no retry); a policy only enters the document from a spec that
\* went through GetProcess and GetMounts; and a returned document holds a
\* fully merged policy for every container and init-container name of the
\* manifest.
C14_NoPartialSuccess ==
    /\ [](stage \in {"error", "panic"} => (ret = None \/ ~ret[1].ok))
    /\ [](stage = "error" => ret # None)
    /\ [](stage = "done" =>
             /\ ret = Some(Ok([kind |-> pod[1].kind, policy |-> cc_policy]))
             /\ ManifestNames \subseteq DOMAIN cc_policy.containers
             /\ \A n \in DOMAIN cc_policy.containers : FullyMerged(cc_policy.containers[n]))
    /\ [][/\ StepFails => (stage' = "error" /\ cc_policy' = cc_policy)
          /\ stage \notin {"error", "panic", "done"}
          /\ cc_policy' # cc_policy =>
                /\ pc = "insert"
                /\ FullyMerged(ContainerPolicy(oci_spec))
                /\ \E n \in DOMAIN cc_policy'.containers :
                      cc_policy'.containers[n] = ContainerPolicy(oci_spec)]_vars

\* The sandbox fails after a container's policy was stored: the call ends
\* with an error although part of the document exists.
C14_Witness ==
    /\ stage = "error"
    /\ ret # None /\ ~ret[1].ok
    /\ DOMAIN cc_policy.containers # {}

\* C15: compilation is deterministic.  The spec GetMounts leaves is the only
\* one the step can leave for the manifest and collaborator data at hand, so
\* a second run stores the same mounts in the same order.
C15_Deterministic ==
    [][(pc = "get_mounts" /\ pc' = "insert") =>
          \A r \in get_mounts(oci_spec, IF IsSandbox THEN None ELSE pod, cur, image, kube) :
              r.res.val.mounts = oci_spec'.mounts]_vars

(***************************************************************************)
(* Claims about the rule source generators                                 *)
(***************************************************************************)

\* The env list of the fragment get_rules returned.
RulesEnv == ret[1].process[1].env[1]

HostnamePattern == <<"^", "HOSTNAME", "=", ".+">>
PathPattern ==
    <<"^", "PATH", "=", "/usr/local/sbin:/usr/local/bin:/usr/sbin:/usr/bin:/sbin:/bin", "$">>
TermLiteral == <<"TERM", "=", "xterm">>

\* C16 as stated: for every (is_sandbox, privileged, tty) the env list of the
\* runtime-default fragment holds the HOSTNAME pattern and the PATH pattern,
\* and holds TERM=xterm exactly when tty is true.
C16_EveryFlavour ==
    (call.fn = "get_rules" /\ ret # None) =>
        /\ HostnamePattern \in Range(RulesEnv)
        /\ PathPattern \in Range(RulesEnv)
        /\ TermLiteral \in Range(RulesEnv) <=> call.tty

\* C16, amended: for every (privileged, tty) the env list of a regular
\* container's runtime-default fragment is the HOSTNAME pattern, the PATH
\* pattern and, exactly when tty is true, TERM=xterm; the env list of the
\* sandbox's fragment holds neither pattern: it is TERM=xterm alone when tty
\* is true and empty otherwise.
C16_RuntimeEnv ==
    (call.fn = "get_rules" /\ ret # None) =>
        IF call.is_sandbox
        THEN RulesEnv = (IF call.tty THEN <<TermLiteral>> ELSE <<>>)
        ELSE RulesEnv = <<HostnamePattern, PathPattern>>
                        \o (IF call.tty THEN <<TermLiteral>> ELSE <<>>)

\* C16 witness: the sandbox fragment built with a tty, whose env is TERM
\* alone.
C16_Witness ==
    /\ call.fn = "get_rules"
    /\ call.is_sandbox /\ call.tty
    /\ ret # None
    /\ RulesEnv = <<TermLiteral>>

\* The mounts of the fragment get_rules returned.
RulesMounts == ret[1].mounts[1]

StandardDestinations ==
    << <<"proc">>, <<"dev">>, <<"dev", "pts">>, <<"dev", "mqueue">>, <<"dev", "shm">>, <<"sys">> >>

HoldsContainerFragment == pc \in {"get_process", "get_mounts", "insert"} /\ ~IsSandbox

\* The builder holds what it merges into the sandbox in place of an
\* orchestrator fragment.
HoldsSandboxFragment == pc \in {"get_process", "get_mounts", "insert"} /\ IsSandbox

\* A fragment with no env and no mounts.
EmptyFragment(fragment) ==
    /\ fragment.process = None \/ or_empty(fragment.process[1].env) = <<>>
    /\ or_empty(fragment.mounts) = <<>>

\* The orchestrator fragment of a regular container, up to the number of its
\* env patterns: every pattern is anchored and the mounts are exactly two
\* bind mounts, /dev/termination-log (rw) and the service-account directory
\* (ro).
ContainerFragmentShape(fragment, patterns) ==
    LET env == fragment.process[1].env[1]
        mounts == fragment.mounts[1]
    IN  /\ Len(env) = patterns
        /\ Cardinality(Range(env)) = patterns
        /\ \A k \in DOMAIN env : env[k][1] = "^" /\ find_eq(env[k]) # 0
        /\ Len(mounts) = 2
        /\ mounts[1].destination = <<"dev", "termination-log">>
        /\ mounts[1].typ = "bind"
        /\ "rw" \in Range(mounts[1].options) /\ "ro" \notin Range(mounts[1].options)
        /\ mounts[2].destination = <<"var", "run", "secrets", "kubernetes.io", "serviceaccount">>
        /\ mounts[2].typ = "bind"
        /\ "ro" \in Range(mounts[2].options) /\ "rw" \notin Range(mounts[2].options)

\* The sandbox gets no orchestrator fragment: get_rules(true) is empty, and
\* so is what the builder merges into the sandbox.
SandboxFragmentEmpty ==
    /\ EmptyFragment(kubernetes_get_rules(TRUE))
    /\ HoldsSandboxFragment => EmptyFragment(kube)

\* C18 as stated: the orchestrator fragment of a regular container has nine
\* anchored env patterns and the two bind mounts; the sandbox's is empty.
C18_NinePatterns ==
    /\ HoldsContainerFragment =>
          kube = kubernetes_get_rules(FALSE) /\ ContainerFragmentShape(kube, 9)
    /\ SandboxFragmentEmpty

\* C18, amended: the orchestrator fragment of a regular container has eight
\* anchored env patterns and exactly two bind mounts, /dev/termination-log
\* (rw) and the service-account directory (ro); the fragment for the sandbox
\* is empty (no env, no mounts), and nothing of the orchestrator's is merged
\* into the sandbox policy.
C18_EightPatterns ==
    /\ HoldsContainerFragment =>
          kube = kubernetes_get_rules(FALSE) /\ ContainerFragmentShape(kube, 8)
    /\ SandboxFragmentEmpty

\* C18 witness: a stored container policy that carries the orchestrator's
\* read-only service-account mount and its patterns, and a finished sandbox
\* spec that does not.
C18_Witness ==
    /\ pc = "insert"
    /\ IsSandbox
    /\ "c" \in DOMAIN cc_policy.containers
    /\ LET sa == <<"var", "run", "secrets", "kubernetes.io", "serviceaccount">>
           stored == cc_policy.containers["c"].oci_spec
       IN  /\ sa \notin Destinations(oci_spec.mounts[1])
           /\ sa \in Destinations(stored.mounts[1])
           /\ "ro" \in Range(LastWith(stored.mounts[1], sa).options)
           /\ Len(stored.process[1].env[1]) >= 8

(***************************************************************************)
(* Claims about the manifest extractor                                     *)
(***************************************************************************)

\* A field of a pod spec read as a list: the sequence, if it is one.
AsSequence(field) == IF field.tag = "seq" THEN Some(field.seq) ELSE None

\* The normalized view of the pod spec found at one place of the manifest.
ViewOf(kind, place) ==
    [kind |-> kind,
     containers |-> AsSequence(place.containers),
     init_containers |-> AsSequence(place.initContainers),
     volumes |-> get_volmues(place.volumes).val]

SupportedKinds == {"Pod", "Job", "Deployment", "ReplicationController"}

\* The manifest's kind is one of the supported ones.
KindSupported == call.yaml.kind.tag = "str" /\ call.yaml.kind.str \in SupportedKinds

\* C19: once PodYaml::from has run, a manifest of kind Pod has the view read
\* from spec, one of kind Job, Deployment or ReplicationController the view
\* read from spec.template.spec (unless a volume of that place is malformed);
\* for any other kind, a missing kind included, the call has failed with an
\* "unsupported kind" error (a kind that is no string fails while it is
\* parsed), there is no view, and no policy is ever built.
C19_KindsAndPlaces ==
    (call.fn = "get_policy_from_yaml" /\ stage # "from") =>
        IF KindSupported
        THEN LET place == IF call.yaml.kind.str = "Pod"
                          THEN call.yaml.spec ELSE call.yaml.template_spec
             IN  IF get_volmues(place.volumes).ok
                 THEN pod = Some(ViewOf(call.yaml.kind.str, place))
                 ELSE pod = None /\ stage = "error"
        ELSE /\ pod = None
             /\ stage = "error"
             /\ ret = Some(IF call.yaml.kind.tag \in {"str", "absent"}
                           THEN Err("unsupported kind")
                           ELSE Err("failed to parse kind into str"))
             /\ cc_policy.containers = <<>>

\* C19 witness: a Deployment whose policies are those of the containers
\* under spec.template.spec, not of the ones under spec.
C19_Witness ==
    /\ stage = "done"
    /\ call.yaml.kind = Y_str("Deployment")
    /\ {"t", "ti"} \subseteq DOMAIN cc_policy.containers
    /\ {"s", "si"} \cap DOMAIN cc_policy.containers = {}

\* The pod spec PodYaml::from reads for the manifest's kind.
ReadPlace == IF call.yaml.kind = Y_str("Pod") THEN call.yaml.spec ELSE call.yaml.template_spec

\* A command or args that is present and not a sequence of strings.
NotStrings(field) ==
    /\ field.tag # "absent"
    /\ field.tag # "seq" \/ \E k \in DOMAIN field.seq : field.seq[k].tag # "str"

\* An env entry with neither value nor valueFrom.
Valueless(container) ==
    /\ container.env.tag = "seq"
    /\ \E k \in DOMAIN container.env.seq :
          /\ container.env.seq[k].value.tag = "absent"
          /\ container.env.seq[k].valueFrom.tag = "absent"

\* A containers, initContainers or volumes field that is present and not a
\* sequence.
NotASequence(field) == field.tag \notin {"absent", "seq"}

\* A hostPath volume whose path is present and not a string.
PathNotAString(volumes) ==
    /\ volumes.tag = "seq"
    /\ \E k \in DOMAIN volumes.seq :
          /\ "hostPath" \in volumes.seq[k].keys
          /\ volumes.seq[k].path.tag \notin {"absent", "str"}

\* The containers PodYaml::from reads, of both lists.
ReadContainers ==
    Range(or_empty(AsSequence(ReadPlace.containers)))
    \cup Range(or_empty(AsSequence(ReadPlace.initContainers)))

\* The manifest holds a field of the wrong shape where the builder reads.
WrongShape ==
    /\ KindSupported
    /\ \/ NotASequence(ReadPlace.containers)
       \/ NotASequence(ReadPlace.initContainers)
       \/ NotASequence(ReadPlace.volumes)
       \/ PathNotAString(ReadPlace.volumes)
       \/ \E c \in ReadContainers : NotStrings(c.command) \/ NotStrings(c.args) \/ Valueless(c)

\* C20: no malformed field is swallowed into a default.  A manifest that
\* holds a command or args that is not a sequence of strings, an env entry
\* with neither value nor valueFrom, a containers, initContainers or volumes
\* field that is not a sequence, or a hostPath path that is not a string,
\* never ends in a returned document.
C20_WrongShapeFails == WrongShape => stage # "done"

\* The names the manifest declares a volume for.
DeclaredVolumes == {call.volumes.seq[k].name.str : k \in DOMAIN call.volumes.seq}

\* A volume-mount request that names no declared volume.
UnknownVolume(request) == request.name.str \notin DeclaredVolumes

\* A volume-mount request whose mountPropagation is none of the three values.
UnknownPropagation(request) ==
    /\ request.mountPropagation.tag = "str"
    /\ request.mountPropagation.str \notin {"None", "HostToContainer", "Bidirectional"}

\* The option a request's mountPropagation stands for.
PropagationOf(request) ==
    IF request.mountPropagation.tag = "absent" THEN "rprivate"
    ELSE IF request.mountPropagation.str = "None" THEN "rprivate"
    ELSE IF request.mountPropagation.str = "HostToContainer" THEN "rslave"
    ELSE "rshared"

\* A declaration of an emptyDir with no options: emptyDir: {}.
PlainEmptyDir(decl) == "emptyDir" \in decl.keys /\ decl.emptyDir = Y_map({})

\* The host path of a declaration: the path of a hostPath volume, empty for
\* every other kind.
HostPathOf(decl) ==
    IF /\ "hostPath" \in decl.keys
       /\ decl.keys \cap {"emptyDir", "secret", "configMap", "downwardAPI", "projected"} = {}
       /\ decl.path.tag = "str"
    THEN decl.path.str
    ELSE <<>>

\* C21: PodYaml::get_mounts fails when a volume-mount request names a volume
\* the manifest does not declare or carries a mountPropagation other than
\* None, HostToContainer and Bidirectional.  When it succeeds it returns one
\* mount per request, in order: type "local" exactly when the volume is an
\* emptyDir declared with no options and "bind" otherwise, source the
\* volume's host path, and options rbind, then the propagation option
\* (absent or None -> rprivate, HostToContainer -> rslave, Bidirectional ->
\* rshared), then ro or rw.
C21_MountShape ==
    (call.fn = "PodYaml::get_mounts" /\ ret # None) =>
        LET reqs == call.container.volumeMounts.seq
        IN  /\ (\E k \in DOMAIN reqs : UnknownVolume(reqs[k]) \/ UnknownPropagation(reqs[k]))
                  => ~ret[1].ok
            /\ ret[1].ok =>
                  /\ Len(ret[1].val) = Len(reqs)
                  /\ \A k \in DOMAIN reqs :
                        LET mount == ret[1].val[k]
                            decl == DeclOf(call.volumes.seq, reqs[k].name.str)
                            declared == reqs[k].readOnly.tag = "bool" /\ reqs[k].readOnly.bool
                        IN  /\ mount.destination = reqs[k].mountPath.str
                            /\ mount.typ = (IF PlainEmptyDir(decl) THEN "local" ELSE "bind")
                            /\ mount.source = HostPathOf(decl)
                            /\ mount.options =
                                  <<"rbind", PropagationOf(reqs[k]),
                                    IF ReadOnlyKind(decl) \/ declared THEN "ro" ELSE "rw">>

\* C21 witness: an emptyDir: {} volume mounted with Bidirectional propagation
\* comes out as a local mount with options rbind, rshared, rw.
C21_Witness ==
    /\ call.fn = "PodYaml::get_mounts"
    /\ call.volumes.seq = <<VolumeDecl({"emptyDir"}, Y_map({}), Y_absent)>>
    /\ ret # None /\ ret[1].ok
    /\ Len(ret[1].val) = 1
    /\ ret[1].val[1].typ = "local"
    /\ ret[1].val[1].options = <<"rbind", "rshared", "rw">>

\* What the accessor reads an env entry as: a literal value, a reference of
\* one of the kinds it knows, a reference of another kind, an entry with
\* neither value nor valueFrom, or an entry with a field of the wrong type.
EntryKind(entry) ==
    IF entry.name.tag # "str" THEN "malformed"
    ELSE IF entry.value.tag = "str" THEN "literal"
    ELSE IF entry.value.tag # "absent" THEN "malformed"
    ELSE IF entry.valueFrom.tag = "absent" THEN "valueless"
    ELSE IF entry.valueFrom.tag # "map" THEN "malformed"
    ELSE IF "configMapKeyRef" \in entry.valueFrom.map.keys THEN "configMapKeyRef"
    ELSE IF entry.valueFrom.map.keys
               \cap {"secretKeyRef", "fieldRef", "resourceFieldRef"} # {}
    THEN "opaque"
    ELSE "unsupported"

\* The value a configMapKeyRef resolves to, if the map and the key exist.
Resolved(entry) ==
    LET ref == entry.valueFrom.map.configMapKeyRef
    IN  IF ref.name \in DOMAIN call.cluster /\ ref.key \in DOMAIN call.cluster[ref.name]
        THEN Some(call.cluster[ref.name][ref.key])
        ELSE None

\* The entry makes the accessor fail: an unresolvable configMapKeyRef or a
\* reference of an unsupported kind.
EntryFails(entry) ==
    \/ EntryKind(entry) = "unsupported"
    \/ EntryKind(entry) = "configMapKeyRef" /\ Resolved(entry) = None

\* The rule of an entry of one of the three kinds that yield one; the rules
\* of references carry the leading "^" (and "$" after a resolved value) when
\* `anchored`.
RuleOf(entry, anchored) ==
    LET name == entry.name.str
        open == IF anchored THEN <<"^">> ELSE <<>>
        close == IF anchored THEN <<"$">> ELSE <<>>
    IN  IF EntryKind(entry) = "literal" THEN name \o <<"=">> \o entry.value.str
        ELSE IF EntryKind(entry) = "configMapKeyRef"
        THEN open \o name \o <<"=">> \o Resolved(entry)[1] \o close
        ELSE open \o name \o <<"=", ".">>

\* The contract of PodYaml::get_env, up to the anchoring of reference rules:
\* an entry that fails makes the call fail, with the unsupported-reference
\* error when that entry is the first to fail; a successful call returns one
\* rule per entry, in declaration order, each of the form of its kind.
EnvAccessorContract(anchored) ==
    (call.fn = "PodYaml::get_env" /\ ret # None) =>
        LET env == call.container.env.seq
        IN  /\ (\E k \in DOMAIN env : EntryFails(env[k])) => ~ret[1].ok
            /\ \A k \in DOMAIN env :
                  (/\ EntryKind(env[k]) = "unsupported"
                   /\ \A j \in 1..(k - 1) :
                         EntryKind(env[j]) # "malformed" /\ ~EntryFails(env[j]))
                  => ret[1] = Err("unsupported reference")
            /\ ret[1].ok =>
                  /\ Len(ret[1].val) = Len(env)
                  /\ \A k \in DOMAIN env :
                        EntryKind(env[k]) \in {"literal", "configMapKeyRef", "opaque"}
                        => ret[1].val[k] = RuleOf(env[k], anchored)

\* C22 as stated: a literal value yields NAME=value, a configMapKeyRef yields
\* the literal NAME=<resolved-value> and fails if the map or key is absent,
\* secretKeyRef, fieldRef and resourceFieldRef yield NAME=. , any other
\* reference kind fails with an unsupported-reference error; one rule per
\* entry, in declaration order.
C22_RulesAsStated == EnvAccessorContract(FALSE)

\* C22, amended: as stated, except that the rules of references are
\* anchored: a configMapKeyRef yields ^NAME=<resolved-value>$ and
\* secretKeyRef, fieldRef and resourceFieldRef yield ^NAME=. ; only a literal
\* value yields the bare NAME=value.
C22_EnvRules == EnvAccessorContract(TRUE)

\* C22 witness: a literal entry followed by a resolved configMapKeyRef.
C22_Witness ==
    /\ call.fn = "PodYaml::get_env"
    /\ ret = Some(Ok(<< <<"A", "=", "1">>, <<"^", "A", "=", "v", "$">> >>))

(***************************************************************************)
(* Further claims about merge_process_env                                  *)
(***************************************************************************)

\* C23: merge_process_env does not update its name index during a call.  The
\* index is the one built over the defaults it was given; a valued override
\* of a name those defaults do not hold is appended at the end, also when an
\* earlier override of the call appended the same name, and a valued override
\* of a name they hold rewrites its last position there and no other.  So a
\* batch without removals that gives a new name two values leaves both, in
\* batch order, after the defaults entries, and earlier occurrences of a name
\* defaults held twice keep their rule.
C23_IndexIsASnapshot ==
    /\ [][(epc \in {"overrides", "removes"}) => (cache' = cache)]_vars
    /\ [][(/\ epc = "overrides"
           /\ i <= Len(call.overrides)
           /\ find_eq(call.overrides[i]) # 0)
          => LET env == call.overrides[i]
                 P0 == PositionsOf(call.defaults, env_name(env))
             IN  IF P0 = {}
                 THEN defaults' = Append(defaults, env)
                 ELSE defaults' = [defaults EXCEPT ![Max(P0)] = env]]_vars
    /\ []((epc = "done" /\ Valued(call.overrides) = DOMAIN call.overrides) =>
             \A k \in DOMAIN call.overrides :
                 LET n == env_name(call.overrides[k])
                     P0 == PositionsOf(call.defaults, n)
                 IN  IF P0 = {}
                     THEN RulesFor(SubSeq(defaults, Len(call.defaults) + 1, Len(defaults)), n)
                             = RulesFor(call.overrides, n)
                     ELSE /\ PositionsOf(defaults, n) = P0
                          /\ \A p \in P0 \ {Max(P0)} : defaults[p] = call.defaults[p])

\* C23 witness: D, new to the defaults, is given two values and is appended
\* twice, in batch order; B, held twice, is replaced at its last position
\* only.
C23_Witness ==
    /\ epc = "done"
    /\ call.defaults = <<B2, A1, B2>>
    /\ call.overrides = <<D1, B3, D2>>
    /\ defaults = <<B2, A1, B3, D1, D2>>

\* C24: merge_process_env returns normally for every defaults list whose
\* entries all hold '=' and every batch, batches with several removals or a
\* repeated removal name included, and each removal deletes the one entry
\* that carries the requested name when the removal is applied.
C24_RemovalsReturn ==
    /\ []((\A k \in DOMAIN call.defaults : find_eq(call.defaults[k]) # 0) => epc # "panic")
    /\ [][(epc = "removes" /\ removes # <<>> /\ epc' = "removes")
          => LET held == PositionsOf(defaults, Head(removes))
             IN  IF held = {}
                 THEN defaults' = defaults
                 ELSE \E p \in held : defaults' = vec_remove(defaults, p)]_vars

\* Every entry of the list holds '='.
AllHoldEq(list) == \A k \in DOMAIN list : find_eq(list[k]) # 0

\* The image of the container being built declares an env entry without '='.
ImageEnvHasBareEntry ==
    /\ image.config # None
    /\ image.config[1].env # None
    /\ \E k \in DOMAIN image.config[1].env[1] : find_eq(image.config[1].env[1][k]) = 0

\* C25: whenever the builder is about to merge the environment, the three
\* lists get_env passes as defaults to merge_process_env (the starting
\* spec's env, the result of the orchestrator merge, the result of the image
\* merge) hold '=' in every entry, also when the image declares env entries
\* without '='; no merge aborts, and the step leaves a list that holds '=' in
\* every entry.
C25_DefaultsHoldEq ==
    /\ [](pc = "get_process" =>
             LET m1 == merge_process_env(spec_env(oci_spec), spec_env(kube))
                 m2 == merge_process_env(m1.defaults, image_get_env(image))
             IN  /\ AllHoldEq(spec_env(oci_spec))
                 /\ ~m1.panic /\ AllHoldEq(m1.defaults)
                 /\ ~m2.panic /\ AllHoldEq(m2.defaults))
    /\ [][pc = "get_process" =>
             /\ stage' # "panic"
             /\ pc' = "get_mounts" => AllHoldEq(spec_env(oci_spec'))]_vars

\* C25 witness: the environment of a container was merged although its image
\* declares an env entry without '='.
C25_Witness ==
    /\ pc = "get_mounts"
    /\ ~IsSandbox
    /\ ImageEnvHasBareEntry
    /\ spec_env(oci_spec) # <<>>
    /\ AllHoldEq(spec_env(oci_spec))

\* The container without its securityContext.privileged and tty flags.
Flagless(container) == [container EXCEPT !.privileged = Y_absent, !.tty = Y_absent]

\* The policies a container can get from an empty starting spec, the
\* orchestrator fragment, its image and the manifest, one per order of the
\* merged mounts.
PoliciesWithoutDefaults(container) ==
    LET process == get_process(empty_spec, container, image, kubernetes_get_rules(FALSE),
                               kubectl)
    IN  {ContainerPolicy(mounts.res.val) :
            mounts \in get_mounts(process.res.val, pod, container, image,
                                  kubernetes_get_rules(FALSE))}

\* C26: when the runtime defaults are not requested, the policy stored for a
\* container is one the same container without its privileged and tty flags
\* gets, so two manifests that differ only in these flags get the same
\* policies; it holds no TERM=xterm rule the flags could have added, and no
\* mount of type sysfs or cgroup whose "ro" they could have turned into "rw".
C26_FlagsOnlyInDefaults ==
    [][(pc = "insert" /\ ~IsSandbox /\ ~call.with_default_rules) =>
          LET stored == cc_policy'.containers[get_name(cur).val]
          IN  /\ stored \in PoliciesWithoutDefaults(Flagless(cur))
              /\ TermLiteral \in Range(spec_env(stored.oci_spec))
                    => TermLiteral \in Range(pod_get_env(cur, kubectl).val)
              /\ \A k \in DOMAIN stored.oci_spec.mounts[1] :
                    stored.oci_spec.mounts[1][k].typ \notin {"sysfs", "cgroup"}]_vars

\* C26 witness: without the runtime defaults, a container with tty: true is
\* stored without a TERM rule.
C26_Witness ==
    /\ stage = "done"
    /\ ~call.with_default_rules
    /\ pod[1].containers # None
    /\ Len(pod[1].containers[1]) = 1
    /\ pod[1].containers[1][1].tty = Y_bool(TRUE)
    /\ "c" \in DOMAIN cc_policy.containers
    /\ TermLiteral \notin Range(spec_env(cc_policy.containers["c"].oci_spec))

\* The policies the sandbox can get: the sandbox runtime defaults with
\* privileged and tty false, no orchestrator fragment, the pause image and no
\* manifest; one policy per order of the merged mounts.
SandboxPolicies ==
    LET pause == skopeo[get_pause_image_ref]
        process == get_process(cri_get_rules(TRUE, FALSE, FALSE), NullContainer, pause,
                               empty_spec, kubectl)
    IN  {ContainerPolicy(mounts.res.val) :
            mounts \in get_mounts(process.res.val, None, NullContainer, pause, empty_spec)}

\* A container of the manifest is privileged, or has a tty.
SomeContainerFlagged ==
    \E c \in Range(or_empty(pod[1].containers)) \cup Range(or_empty(pod[1].init_containers)) :
        c.privileged = Y_bool(TRUE) \/ c.tty = Y_bool(TRUE)

\* C27: the policy stored for the sandbox does not depend on the containers
\* of the manifest.  It is one of the policies built from the sandbox runtime
\* defaults with privileged and tty false, the pause image, no orchestrator
\* fragment and no manifest mounts; its /sys mount holds "ro" and it has no
\* TERM rule, whatever the flags of the containers.
C27_SandboxIndependent ==
    [][(pc = "insert" /\ IsSandbox) =>
          LET stored == cc_policy'.containers[KUBERNETES_PAUSE_NAME]
              mounts == stored.oci_spec.mounts[1]
          IN  /\ stored \in SandboxPolicies
              /\ "ro" \in Range(LastWith(mounts, <<"sys">>).options)
              /\ "rw" \notin Range(LastWith(mounts, <<"sys">>).options)
              /\ TermLiteral \notin Range(spec_env(stored.oci_spec))
              /\ Destinations(mounts)
                    \cap Destinations(kubernetes_get_rules(FALSE).mounts[1]) = {}]_vars

\* C27 witness: a returned document whose flagged container has lost the
\* "ro" of /sys or gained TERM, and whose sandbox has neither.
C27_Witness ==
    /\ stage = "done"
    /\ call.with_default_rules
    /\ SomeContainerFlagged
    /\ KUBERNETES_PAUSE_NAME \in DOMAIN cc_policy.containers
    /\ LET sandbox == cc_policy.containers[KUBERNETES_PAUSE_NAME].oci_spec
       IN  /\ "ro" \in Range(LastWith(sandbox.mounts[1], <<"sys">>).options)
           /\ TermLiteral \notin Range(spec_env(sandbox))
    /\ \E n \in DOMAIN cc_policy.containers :
          LET spec == cc_policy.containers[n].oci_spec
          IN  \/ "rw" \in Range(LastWith(spec.mounts[1], <<"sys">>).options)
              \/ TermLiteral \in Range(spec_env(spec))

====
